---- MODULE Spec2Model ----
(***************************************************************************)
(* Model of the sub-agent task execution engine of the MCP orchestrator:   *)
(* the spawn_subagents tool handler (src/src/index.ts), the batch          *)
(* orchestrator spawnSubAgents, the retry wrapper spawnWithRetry and the   *)
(* process runner spawnSubAgent (src/src/spawn.ts), with the process-wide  *)
(* activeTasks set.                                                        *)
(*                                                                         *)
(* Texts are sequences of one-character strings, so that toLowerCase,      *)
(* includes and trim are computed as the code computes them.  Time is the  *)
(* millisecond clock "now"; it advances from one timer deadline to the     *)
(* next, and a timer fires before time passes its deadline.                *)
(***************************************************************************)
EXTENDS Integers, Sequences, FiniteSets, TLC

\* ------------------------------------------------------------------ bounds

\* Largest number of tasks in a modelled request.
MaxTasks == 2

\* Largest number of tasks in a request of the runs with a shutdown signal.
MaxShutdownTasks == 1

\* Invocations of spawnSubAgent followed together, the tool calls they belong
\* to, and the last millisecond of the clock, in the runs about config files.
MaxInFlight == 2

MaxBatches == 2

MaxClockMs == 1

\* Largest number of shutdown signals followed after the first.
MaxIgnoredSignals == 1

\* ------------------------------------------------------- program constants

\* index.ts: const DEFAULT_TIMEOUT = 120; // seconds
DEFAULT_TIMEOUT == 120

\* index.ts: tasks: z.array(SubAgentTaskSchema).min(1).max(10)
MinBatch == 1

MaxBatch == 10

\* spawn.ts: maxAttempts = 2 (default parameter of spawnWithRetry)
maxAttempts == 2

\* spawn.ts: setTimeout(resolve, 2000) // 2s fixed delay
RetryDelayMs == 2000

\* types.ts: DEFAULT_MCP_TIMEOUTS['_default']
McpDefaultTimeout == 60

\* index.ts shutdown: const deadline = Date.now() + 30000
DrainWindowMs == 30000

\* index.ts shutdown: setTimeout(resolve, 1000) between two looks at activeTasks
PollIntervalMs == 1000

\* Exit code Node reports on 'close' after a failed spawn (-errno of ENOENT).
ENOENT_CODE == -2

\* ------------------------------------------------------------------- texts

Upper == <<"A","B","C","D","E","F","G","H","I","J","K","L","M",
           "N","O","P","Q","R","S","T","U","V","W","X","Y","Z">>

Lower == <<"a","b","c","d","e","f","g","h","i","j","k","l","m",
           "n","o","p","q","r","s","t","u","v","w","x","y","z">>

Whitespace == {" ", "\n", "\t", "\r"}

\* String.prototype.toLowerCase on one character.
LowerChar(c) ==
  IF \E k \in 1..26 : Upper[k] = c
    THEN Lower[CHOOSE k \in 1..26 : Upper[k] = c]
    ELSE c

\* String.prototype.toLowerCase
toLowerCase(s) == [k \in 1..Len(s) |-> LowerChar(s[k])]

\* String.prototype.includes
includes(s, sub) ==
  \E k \in 0..(Len(s) - Len(sub)) :
    \A j \in 1..Len(sub) : s[k + j] = sub[j]

\* String.prototype.trim
trim(s) ==
  LET keep == {k \in 1..Len(s) : s[k] \notin Whitespace}
  IN  IF keep = {} THEN <<>>
      ELSE LET lo == CHOOSE k \in keep : \A j \in keep : k <= j
               hi == CHOOSE k \in keep : \A j \in keep : j <= k
           IN  SubSeq(s, lo, hi)

DigitChars == <<"0","1","2","3","4","5","6","7","8","9">>

RECURSIVE NatStr(_)
\* Decimal digits of a natural number.
NatStr(n) ==
  IF n < 10 THEN <<DigitChars[n + 1]>>
  ELSE NatStr(n \div 10) \o <<DigitChars[(n % 10) + 1]>>

\* Number-to-string of an integer, as a template literal renders it.
IntStr(n) == IF n < 0 THEN <<"-">> \o NatStr(0 - n) ELSE NatStr(n)

RECURSIVE StripZeros(_)
StripZeros(s) ==
  IF Len(s) > 0 /\ s[Len(s)] = "0" THEN StripZeros(SubSeq(s, 1, Len(s) - 1)) ELSE s

\* Rendering of (ms / 1000) for a non-negative whole number of milliseconds:
\* "120" for 120000, "0.1" for 100.
SecondsStr(ms) ==
  LET r == ms % 1000
      frac == <<DigitChars[(r \div 100) + 1], DigitChars[((r \div 10) % 10) + 1],
                DigitChars[(r % 10) + 1]>>
  IN  IF r = 0 THEN NatStr(ms \div 1000)
      ELSE NatStr(ms \div 1000) \o <<".">> \o StripZeros(frac)

T_timeout == <<"t","i","m","e","o","u","t">>

T_etimedout == <<"e","t","i","m","e","d","o","u","t">>

T_econnreset == <<"e","c","o","n","n","r","e","s","e","t">>

T_econnrefused == <<"e","c","o","n","n","r","e","f","u","s","e","d">>

T_spawn == <<"s","p","a","w","n">>

\* `Timeout after ${timeout / 1000}s`
TimeoutError(ms) ==
  <<"T","i","m","e","o","u","t"," ","a","f","t","e","r"," ">> \o SecondsStr(ms) \o <<"s">>

\* `Exit code: ${code}`
ExitCodeError(code) ==
  <<"E","x","i","t"," ","c","o","d","e",":"," ">> \o IntStr(code)

\* error.message of the 'error' event of a failed spawn: "spawn <file> ENOENT"
SpawnErrorMessage(file) ==
  <<"s","p","a","w","n"," ">> \o file \o <<" ","E","N","O","E","N","T">>

\* error.message of the RangeError spawn() throws for an invalid timeout option
TimeoutRangeMessage ==
  <<"T","h","e"," ","v","a","l","u","e"," ","o","f"," ","\"","t","i","m","e","o","u","t","\"",
    " ","i","s"," ","o","u","t"," ","o","f"," ","r","a","n","g","e",".">>

\* 'Unknown error', the fallback of spawnSubAgents when the reason has no message
UnknownErrorText == <<"U","n","k","n","o","w","n"," ","e","r","r","o","r">>

B_copilot == <<"c","o","p","i","l","o","t">>

B_claude == <<"c","l","a","u","d","e">>

\* A configured backend name that is not registered and holds the word 'spawn'.
B_spawner == <<"s","p","a","w","n","e","r">>

B_gemini == <<"g","e","m","i","n","i">>

\* `Unknown CLI backend: ${backendName}. Available: ${Object.keys(BackendRegistry).join(', ')}`
UnknownBackendError(backendName) ==
  <<"U","n","k","n","o","w","n"," ","C","L","I"," ","b","a","c","k","e","n","d",":"," ">>
    \o backendName
    \o <<"."," ","A","v","a","i","l","a","b","l","e",":"," ">>
    \o B_copilot \o <<","," ">> \o B_claude

\* What a child may have written to stderr by the time it closes.
StderrTexts ==
  { <<>>,
    <<" ","\n">>,
    <<"i","n","v","a","l","i","d"," ","p","r","o","m","p","t","\n">>,
    <<"r","e","a","d"," ","E","C","O","N","N","R","E","S","E","T","\n">> }

\* The stdout of the children of the batch runs, where only its presence
\* matters.
StdoutSeen == <<" ","o","k","\n">>

\* What a child may have written to stdout by the time it closes.
StdoutTexts == { <<>>, StdoutSeen }

\* Exit codes a child may report on 'close'.
ExitCodes == {0, 1}

\* ---------------------------------------------------------- pure functions

\* The NaN that Math.max returns for an argument that is not a number; no
\* timeout of the table is negative.
NaN == -1

\* The properties every object literal inherits from Object.prototype: the
\* lookup DEFAULT_MCP_TIMEOUTS[name] finds a function or an object under them.
ObjectPrototypeKeys ==
  {"constructor", "toString", "valueOf", "hasOwnProperty", "isPrototypeOf",
   "propertyIsEnumerable", "toLocaleString", "__proto__"}

\* types.ts: DEFAULT_MCP_TIMEOUTS[server] ?? DEFAULT_MCP_TIMEOUTS['_default'],
\* as Math.max sees it: an inherited property is neither null nor undefined,
\* and is not a number.
McpTimeoutOf(server) ==
  CASE server = "filesystem"      -> 30
    [] server = "memory"          -> 30
    [] server = "github"          -> 60
    [] server = "google-tasks"    -> 60
    [] server = "playwright"      -> 120
    [] server = "google-calendar" -> 90
    [] server = "leetcode"        -> 90
    [] server \in ObjectPrototypeKeys -> NaN
    [] OTHER                      -> McpDefaultTimeout

Max(a, b) == IF a >= b THEN a ELSE b

SetMax(S) == CHOOSE m \in S : \A x \in S : x <= m

SetMin(S) == CHOOSE m \in S : \A x \in S : m <= x

\* types.ts getRecommendedTimeout: mcpServers is a sequence of server names,
\* the empty sequence standing for undefined or [].
getRecommendedTimeout(mcpServers) ==
  LET values == {McpTimeoutOf(mcpServers[k]) : k \in 1..Len(mcpServers)}
  IN  IF Len(mcpServers) = 0 THEN McpDefaultTimeout
      ELSE IF NaN \in values THEN NaN
      ELSE SetMax(values)

\* A number of seconds as the fraction num/den (den > 0): timeout_seconds is
\* z.number(), so it may be fractional or negative.  num = 0 stands for both
\* 0 and undefined, which the code treats alike (both are falsy).
Rat(n, d) == [num |-> n, den |-> d]

Undefined == Rat(0, 1)

\* The timeout resolved as the largest of the three values.
ResolvedTimeoutSeconds_Max(task, defaultTimeout) ==
  LET base == Max(getRecommendedTimeout(task.mcp_servers), defaultTimeout)
      t == task.timeout_seconds
  IN  IF t.num > base * t.den THEN t ELSE Rat(base, 1)

\* spawn.ts 286-287: task.timeout_seconds || Math.max(recommendedTimeout, defaultTimeout)
\* Math.max of a NaN is NaN, and NaN is falsy like 0.
ResolvedTimeoutSeconds(task, defaultTimeout) ==
  IF task.timeout_seconds.num # 0 THEN task.timeout_seconds
  ELSE IF getRecommendedTimeout(task.mcp_servers) = NaN THEN Rat(NaN, 1)
  ELSE Rat(Max(getRecommendedTimeout(task.mcp_servers), defaultTimeout), 1)

\* spawn.ts 287: (...) * 1000, when the product is a whole number
TimeoutMs(task, defaultTimeout) ==
  LET t == ResolvedTimeoutSeconds(task, defaultTimeout)
  IN  (t.num * 1000) \div t.den

\* child_process.spawn validates its timeout option: it throws ERR_OUT_OF_RANGE
\* unless the value is a non-negative integer (NaN is none).
SpawnThrows(task, defaultTimeout) ==
  LET t == ResolvedTimeoutSeconds(task, defaultTimeout)
  IN  t.num < 0 \/ (t.num * 1000) % t.den # 0

\* backends.ts getBackend: BackendRegistry[name.toLowerCase()]; TRUE when a
\* backend is found.
getBackend(name) == toLowerCase(name) \in {B_copilot, B_claude}

\* backends.ts: the defaultCommand of the backend the registry holds under
\* name.toLowerCase() ('copilot', 'claude'), which getCLICommand returns when
\* neither the environment nor config.json names a command.
defaultCommand(backendName) == toLowerCase(backendName)

\* An optional text field of a result: {} when the field is undefined, {text}
\* when it is set.
Absent == {}

Present(text) == {text}

\* backends.ts parseOutput of both backends: output is stdout.trim()
parseOutput(stdout) == trim(stdout)

\* spawn.ts 493: parsed.output || undefined
OutputOrUndefined(text) == IF Len(text) > 0 THEN Present(text) ELSE Absent

\* spawn.ts 293: task.cli_backend || config.backend || 'copilot'
BackendNameOf(task, configBackend) ==
  IF Len(task.cli_backend) > 0 THEN task.cli_backend
  ELSE IF Len(configBackend) > 0 THEN configBackend
  ELSE B_copilot

\* isRetryableError without the toLowerCase of the error text.
isRetryableError_CaseSensitive(result) ==
  IF result.success THEN FALSE
  ELSE LET error == result.error
       IN  \/ includes(error, T_timeout)
           \/ includes(error, T_etimedout)
           \/ includes(error, T_econnreset)
           \/ includes(error, T_econnrefused)
           \/ includes(error, T_spawn)

\* spawn.ts 541-551 isRetryableError
isRetryableError(result) ==
  IF result.success THEN FALSE
  ELSE LET error == toLowerCase(result.error)
       IN  \/ includes(error, T_timeout)
           \/ includes(error, T_etimedout)
           \/ includes(error, T_econnreset)
           \/ includes(error, T_econnrefused)
           \/ includes(error, T_spawn)

\* ------------------------------------------------------------------ inputs

\* types.ts SubAgentTask (the fields the runner's control flow reads).  The
\* modelled tasks: "a" has an explicit one-second timeout and runs on the
\* configured backend; "b" has no explicit timeout (the recommended and the
\* default timeout decide) and names the claude backend; "c" has a negative
\* timeout_seconds, which the input schema (z.number()) accepts.
SubAgentTask ==
  { [id |-> "a", timeout_seconds |-> Rat(1, 1),  cli_backend |-> <<>>,     mcp_servers |-> <<>>],
    [id |-> "b", timeout_seconds |-> Undefined,  cli_backend |-> B_claude, mcp_servers |-> <<>>],
    [id |-> "c", timeout_seconds |-> Rat(-1, 1), cli_backend |-> <<>>,     mcp_servers |-> <<>>] }

RECURSIVE SeqsUpTo(_, _)
\* The sequences over S of length at most n.
SeqsUpTo(S, n) ==
  IF n = 0 THEN {<<>>}
  ELSE LET shorter == SeqsUpTo(S, n - 1)
       IN  shorter \cup {Append(q, x) : q \in {r \in shorter : Len(r) = n - 1}, x \in S}

TaskWithId(id) == CHOOSE t \in SubAgentTask : t.id = id

\* A request that repeats the id of its first task after a task with an id of
\* its own.
DuplicateBatch == <<TaskWithId("a"), TaskWithId("b"), TaskWithId("a")>>

\* A request with one task more than the schema's .max(10), all ids distinct.
OversizedBatch ==
  LET ids == <<"k01","k02","k03","k04","k05","k06","k07","k08","k09","k10","k11">>
  IN  [k \in 1..(MaxBatch + 1) |->
         [id |-> ids[k], timeout_seconds |-> Rat(1, 1), cli_backend |-> <<>>,
          mcp_servers |-> <<>>]]

\* The task lists of the modelled requests: every list of up to MaxTasks of
\* the modelled tasks (the empty one and those repeating a task included), and
\* the two requests above.
TaskLists == SeqsUpTo(SubAgentTask, MaxTasks) \cup {DuplicateBatch, OversizedBatch}

\* config.backend as config.json may give it: a registered name or another one.
ConfigBackends == {B_copilot, B_gemini}

\* The tasks of the single-task requests: they differ in the MCP servers they
\* request and in their explicit timeout_seconds (none, 1 s, 0.1 s, 200 s).
TimeoutTasks ==
  { [id |-> "n",  timeout_seconds |-> Undefined,   cli_backend |-> <<>>, mcp_servers |-> <<>>],
    [id |-> "p",  timeout_seconds |-> Undefined,   cli_backend |-> <<>>,
     mcp_servers |-> <<"playwright">>],
    [id |-> "f",  timeout_seconds |-> Undefined,   cli_backend |-> <<>>,
     mcp_servers |-> <<"filesystem">>],
    [id |-> "fp", timeout_seconds |-> Undefined,   cli_backend |-> <<>>,
     mcp_servers |-> <<"filesystem", "playwright">>],
    [id |-> "px", timeout_seconds |-> Rat(1, 1),   cli_backend |-> <<>>,
     mcp_servers |-> <<"playwright">>],
    [id |-> "q",  timeout_seconds |-> Rat(1, 10),  cli_backend |-> <<>>, mcp_servers |-> <<>>],
    [id |-> "h",  timeout_seconds |-> Rat(200, 1), cli_backend |-> <<>>,
     mcp_servers |-> <<"playwright">>],
    [id |-> "u",  timeout_seconds |-> Undefined,   cli_backend |-> <<>>,
     mcp_servers |-> <<"github", "custom">>],
    [id |-> "k",  timeout_seconds |-> Undefined,   cli_backend |-> <<>>,
     mcp_servers |-> <<"github", "constructor">>] }

\* The single-task requests.
SingleTaskLists == {<<t>> : t \in TimeoutTasks}

\* default_timeout_seconds of a request: absent (0), below every recommended
\* timeout, above every one.
DefaultTimeouts == {0, 10, 200}

\* config.backend of the single-task requests.
SingleTaskConfigBackends == {B_copilot, B_gemini, B_spawner}

\* ------------------------------------------------------------------- state

VARIABLES
  phase,        \* the tool call: "idle", "invalid", "loading", "running", "reported"
  tasks,        \* the tasks of the call's arguments (input.tasks once parsed)
  defaultTimeout, \* input.default_timeout_seconds || DEFAULT_TIMEOUT
  cliConfig,    \* the configuration loadCLIConfig returned (its backend name)
  activeTasks,  \* spawn.ts: export const activeTasks = new Set<string>()
  now,          \* Date.now(), milliseconds
  run,          \* per task slot, the state of its spawnWithRetry promise
  output,       \* the SpawnSubagentsOutput the handler returned
  isShuttingDown, \* index.ts: let isShuttingDown
  deadline,     \* shutdown: const deadline
  pollTimer,    \* deadline of the setTimeout shutdown's loop awaits
  exitedAt,     \* the time of process.exit(0); NoTimer while the server runs
  ignoredSignals, \* history: the signals received while isShuttingDown was set
  env,          \* the directories of the process: os.homedir(), os.tmpdir()
  files,        \* the MCP config files on disk: path -> the mcpServers they hold
  attempts      \* per invocation of spawnSubAgent, its MCP config path, the files
                \* it wrote and unlinked, and the argv it built

shutdownVars == <<isShuttingDown, deadline, pollTimer, exitedAt, ignoredSignals>>

mcpVars == <<env, files, attempts>>

vars == <<phase, tasks, defaultTimeout, cliConfig, activeTasks, now, run, output,
          isShuttingDown, deadline, pollTimer, exitedAt, ignoredSignals,
          env, files, attempts>>

NoTimer == -1

\* types.ts TaskResult; kind names the statement that constructed it.
NoResult ==
  [id |-> "", success |-> FALSE, error |-> <<>>, output |-> Absent,
   duration_ms |-> 0, kind |-> "none"]

InitRun ==
  [ pc            |-> "idle",    \* idle, prep, alive, awaitLog, retryWait, fulfilled, rejected
    attempt       |-> 0,         \* the loop variable of spawnWithRetry
    startTime     |-> 0,         \* spawnSubAgent: const startTime = Date.now()
    timeout       |-> 0,         \* spawnSubAgent: const timeout (ms)
    timeoutHandle |-> NoTimer,   \* deadline of the runner's setTimeout
    killTimer     |-> NoTimer,   \* deadline of the timer of spawn's timeout option
    timedOut      |-> FALSE,     \* spawnSubAgent: let timedOut
    hung          |-> FALSE,     \* the child received SIGTERM and does not exit
    pending       |-> {},        \* event handlers suspended at `await logExecution`,
                                 \* each with the code and stderr it saw and its result
    retryAt       |-> NoTimer,   \* deadline of the retry delay
    lastResult    |-> NoResult,  \* spawnWithRetry: let lastResult
    reason        |-> <<>>,      \* the message of the rejection, when rejected
    spawnCalls    |-> 0,         \* history: calls of spawn() that returned a child
    alive         |-> 0,         \* history: children of the task started and not closed
    closedAt      |-> NoTimer,   \* history: when the last child closed or failed to start
    recommendedTimeout |-> 0,    \* spawnSubAgent: const recommendedTimeout
    built         |-> 0,         \* history: results constructed by the current attempt
    logged        |-> 0 ]        \* history: audit records logExecution appended for
                                 \* the current attempt (lines of the day's .jsonl)

Slots == DOMAIN run

\* The server process has not exited: no handler runs after process.exit.
ServerRunning == exitedAt = NoTimer

\* ------------------------------------------- MCP config files and argv

\* Paths are a directory (its segments) and a file name (its characters).
\* The home directory apart from the temp directory, and inside it.
\* COPILOT_CLI and CLAUDE_CLI are not set (the empty text).
Environments ==
  { [home |-> <<"home", "u">>, tmpdir |-> <<"tmp">>, COPILOT_CLI |-> <<>>, CLAUDE_CLI |-> <<>>],
    [home |-> <<"tmp", "u">>,  tmpdir |-> <<"tmp">>, COPILOT_CLI |-> <<>>, CLAUDE_CLI |-> <<>>] }

\* spawn.ts 24-28 (not Windows): path.join(HOME_DIR, '.config', 'orchestrator')
CONFIG_DIR == env.home \o <<".config", "orchestrator">>

\* spawn.ts 32: os.tmpdir()
TEMP_DIR == env.tmpdir

\* spawn.ts 29: path.join(CONFIG_DIR, 'mcp-subagent.json')
FULL_MCP_CONFIG ==
  [dir |-> CONFIG_DIR,
   name |-> <<"m","c","p","-","s","u","b","a","g","e","n","t",".","j","s","o","n">>]

\* The null that createFilteredMCPConfig returns.
NoPath == [dir |-> <<>>, name |-> <<>>]

\* String.prototype.startsWith, on sequences.
startsWith(s, prefix) ==
  Len(s) >= Len(prefix) /\ SubSeq(s, 1, Len(prefix)) = prefix

\* spawn.ts 39-43: path.resolve(filePath).startsWith(path.resolve(TEMP_DIR) +
\* path.sep): the file lies in the temp directory or below it.
isTempPath(filePath) == startsWith(filePath.dir, TEMP_DIR)

\* spawn.ts 142: path.join(TEMP_DIR, `mcp_${taskId}_claude_${Date.now()}.json`)
ClaudeTempPath(taskId, time) ==
  [dir |-> TEMP_DIR,
   name |-> <<"m","c","p","_">> \o taskId \o <<"_","c","l","a","u","d","e","_">>
              \o NatStr(time) \o <<".","j","s","o","n">>]

\* spawn.ts 217: path.join(TEMP_DIR, `mcp_${taskId}_${Date.now()}.json`)
FilteredTempPath(taskId, time) ==
  [dir |-> TEMP_DIR,
   name |-> <<"m","c","p","_">> \o taskId \o <<"_">>
              \o NatStr(time) \o <<".","j","s","o","n">>]

\* The mcpServers of mcp-subagent.json: per server the fields of its entry
\* ('type' and 'tools' are required by Copilot).
FullMcpServers == [github |-> {"type", "command", "args", "tools"}]

\* spawn.ts 138 and 180: const { type, tools, ...rest } = serverConfig
ClaudeCompatible(serverConfig) == serverConfig \ {"type", "tools"}

\* fs writeFile: the file is created or replaced.
writeFile(fs, filePath, content) ==
  [f \in DOMAIN fs \cup {filePath} |-> IF f = filePath THEN content ELSE fs[f]]

\* fs unlink: the file is gone.
unlink(fs, filePath) == [f \in DOMAIN fs \ {filePath} |-> fs[f]]

\* spawn.ts 117-236 createFilteredMCPConfig; fs is the disk, time is Date.now()
\* and writeOk tells whether writeFile succeeds.  The result is the path
\* returned and the files written ({} or one file).
createFilteredMCPConfig(servers, taskId, backendName, fs, time, writeOk) ==
  LET readOk == FULL_MCP_CONFIG \in DOMAIN fs
      fullConfig == fs[FULL_MCP_CONFIG]
      requested == {servers[k] : k \in 1..Len(servers)}
      claudeConfig == [name \in DOMAIN fullConfig |-> ClaudeCompatible(fullConfig[name])]
      filteredConfig ==
        [server \in requested \cap DOMAIN fullConfig |->
           IF backendName = B_claude
             THEN ClaudeCompatible(fullConfig[server]) ELSE fullConfig[server]]
  IN  IF Len(servers) = 0
        THEN IF backendName = B_claude
               THEN IF readOk /\ writeOk
                      THEN [path |-> ClaudeTempPath(taskId, time),
                            written |-> {[path |-> ClaudeTempPath(taskId, time),
                                          content |-> claudeConfig]}]
                      ELSE [path |-> NoPath, written |-> {}]
               ELSE [path |-> FULL_MCP_CONFIG, written |-> {}]
      ELSE IF readOk /\ writeOk
        THEN [path |-> FilteredTempPath(taskId, time),
              written |-> {[path |-> FilteredTempPath(taskId, time),
                            content |-> filteredConfig]}]
      ELSE [path |-> FULL_MCP_CONFIG, written |-> {}]

\* The values a setting of config.json may hold: absent, the two booleans, and
\* a string.
SettingValues == {"undefined", "false", "true", "'true'"}

\* spawn.ts 69-75: the secure defaults (ORCHESTRATOR_DEFAULT_BACKEND not set).
\* A command that is not configured is the empty text.
DefaultCLIConfig ==
  [backend |-> B_copilot,
   copilot |-> [allowAllTools |-> "false", allowAllPaths |-> "false", command |-> <<>>],
   claude  |-> [allowAllTools |-> "false", command |-> <<>>]]

\* A backend name of config.json in another letter case.
B_Copilot == <<"C","o","p","i","l","o","t">>

\* The `cli` sections a config.json may hold.
CliSections ==
  [backend : {B_copilot, B_claude, B_Copilot, B_gemini},
   copilot : [allowAllTools : SettingValues, allowAllPaths : {"undefined", "true"},
              command : {<<>>}],
   claude  : [allowAllTools : SettingValues, command : {<<>>}]]

\* config.json: unreadable or not JSON, without a `cli` member, or with one.
ConfigFiles ==
  {[readable |-> FALSE, hasCli |-> FALSE, cli |-> DefaultCLIConfig],
   [readable |-> TRUE, hasCli |-> FALSE, cli |-> DefaultCLIConfig]}
    \cup {[readable |-> TRUE, hasCli |-> TRUE, cli |-> c] : c \in CliSections}

\* spawn.ts 48-76 loadCLIConfig: `config.cli || defaults`, the defaults too
\* when the file cannot be read or parsed.
loadCLIConfig(file) ==
  IF file.readable /\ file.hasCli THEN file.cli ELSE DefaultCLIConfig

\* The commands of the runs about the executable: set in the environment,
\* and configured in config.json.
EnvCopilotCli == <<"e","n","v","-","c","o","p","i","l","o","t">>

EnvClaudeCli == <<"e","n","v","-","c","l","a","u","d","e">>

CfgCopilotCommand == <<"c","f","g","-","c","o","p","i","l","o","t">>

CfgClaudeCommand == <<"c","f","g","-","c","l","a","u","d","e">>

\* The environments with and without COPILOT_CLI and CLAUDE_CLI.
CommandEnvironments ==
  [home : {<<"home", "u">>}, tmpdir : {<<"tmp">>},
   COPILOT_CLI : {<<>>, EnvCopilotCli}, CLAUDE_CLI : {<<>>, EnvClaudeCli}]

\* The config.json files with and without copilot.command and claude.command.
CommandConfigFiles ==
  {[readable |-> TRUE, hasCli |-> TRUE, cli |-> c] :
     c \in [backend : {B_copilot, B_claude, B_Copilot},
            copilot : [allowAllTools : {"false"}, allowAllPaths : {"false"},
                       command : {<<>>, CfgCopilotCommand}],
            claude  : [allowAllTools : {"false"},
                       command : {<<>>, CfgClaudeCommand}]]}

\* spawn.ts 81-110 getCLICommand, called for a backend name getBackend accepts.
getCLICommand(backendName, config) ==
  IF backendName = B_copilot /\ Len(env.COPILOT_CLI) > 0 THEN env.COPILOT_CLI
  ELSE IF backendName = B_claude /\ Len(env.CLAUDE_CLI) > 0 THEN env.CLAUDE_CLI
  ELSE IF backendName = B_copilot /\ Len(config.copilot.command) > 0
    THEN config.copilot.command
  ELSE IF backendName = B_claude /\ Len(config.claude.command) > 0
    THEN config.claude.command
  ELSE defaultCommand(backendName)

\* spawn.ts 327-339: the allowAllTools and allowAllPaths of backendOptions.
backendOptions(backendName, config, mcpConfigPath) ==
  [mcpConfigPath |-> mcpConfigPath,
   allowAllTools |-> IF backendName = B_copilot
                       THEN config.copilot.allowAllTools = "true"
                       ELSE config.claude.allowAllTools = "true",
   allowAllPaths |-> backendName = B_copilot /\ config.copilot.allowAllPaths = "true"]

\* backends.ts 57-105 CopilotBackend.buildArgs: the options of the argv (the
\* prompt and the values of the options left out).
CopilotBackend_buildArgs(options) ==
  <<"-p", "-s">>
    \o (IF options.mcpConfigPath # NoPath THEN <<"--additional-mcp-config">> ELSE <<>>)
    \o (IF options.allowAllTools THEN <<"--allow-all-tools">> ELSE <<>>)
    \o (IF options.allowAllPaths THEN <<"--allow-all-paths">> ELSE <<>>)

\* backends.ts 154-196 ClaudeBackend.buildArgs
ClaudeBackend_buildArgs(options) ==
  <<"-p", "--output-format">>
    \o (IF options.mcpConfigPath # NoPath THEN <<"--mcp-config">> ELSE <<>>)
    \o (IF options.allowAllTools THEN <<"--dangerously-skip-permissions">> ELSE <<>>)

\* spawn.ts 294 and 342: backend.buildArgs of the backend getBackend found.
buildArgs(backendName, options) ==
  IF toLowerCase(backendName) = B_copilot
    THEN CopilotBackend_buildArgs(options)
    ELSE ClaudeBackend_buildArgs(options)

\* ------------------------------------------------- context.ts: the prompt

\* context.ts 126
MAX_PROMPT_LENGTH == 6000

\* A text of n characters ch.
Fill(ch, n) == [i \in 1..n |-> ch]

\* Array.prototype.join
RECURSIVE join(_, _)
join(parts, sep) ==
  IF parts = <<>> THEN <<>>
  ELSE IF Len(parts) = 1 THEN parts[1]
  ELSE parts[1] \o sep \o join(Tail(parts), sep)

\* String.prototype.slice(0, end), with a negative end counted from the end
\* of the text.
slice0(s, end) ==
  LET to == IF end < 0 THEN Max(Len(s) + end, 0) ELSE IF end > Len(s) THEN Len(s) ELSE end
  IN  SubSeq(s, 1, to)

T_ContextHeader ==
  <<"[","C","O","N","T","E","X","T"," ","f","r","o","m"," ","p","a","r","e","n","t"," ","a",
    "g","e","n","t","]","\n">>

T_TaskHeader == <<"\n","\n","[","T","A","S","K","]","\n">>

T_ContextTruncated ==
  <<"\n",".",".","."," ","[","c","o","n","t","e","x","t"," ","t","r","u","n","c","a","t",
    "e","d"," ","f","o","r"," ","c","o","m","m","a","n","d"," ","l","i","n","e"," ","l","i",
    "m","i","t","s","]">>

T_ErrorOpen == <<":"," ","[","e","r","r","o","r",":"," ">>

T_GrepRequiresPattern ==
  <<":"," ","[","g","r","e","p"," ","m","o","d","e"," ","r","e","q","u","i","r","e","s"," ",
    "p","a","t","t","e","r","n","]">>

\* context.ts 153; "^", "+" and "'" stand for the three characters before Hint.
T_HintOpen == <<" "," ","^","+","'"," ","H","i","n","t",":"," ">>

\* The message of the error readFile fails with.
T_ENOENT ==
  <<"E","N","O","E","N","T",":"," ","n","o"," ","s","u","c","h"," ","f","i","l","e"," ","o",
    "r"," ","d","i","r","e","c","t","o","r","y">>

P_notes == <<"n","o","t","e","s",".","m","d">>

P_log == <<"r","u","n",".","l","o","g">>

P_go == <<"g","o">>

P_dump == <<"d","u","m","p",".","t","x","t">>

T_hint == <<"s","e","e"," ","t","o","p">>

\* The files of the workspace that tasks name, and their sizes in characters.
ContextPaths == {P_notes, P_log, P_dump}

SmallFileLen == 3
MediumFileLen == 600
LargeFileLen == 6000

\* context.ts 44 and 89: readFile(fullPath, 'utf-8') of a file that is there.
readFile(path) ==
  CASE path = P_notes -> Fill("n", SmallFileLen)
    [] path = P_log   -> Fill("l", MediumFileLen)
    [] OTHER          -> Fill("d", LargeFileLen)

\* context.ts 26-119: the rendering of one file reference; unreadable is the
\* set of paths whose read fails.  References are in mode 'full', or in mode
\* 'grep' without a pattern.
readFileWithMode(fileCtx, unreadable) ==
  IF fileCtx.mode = "grep"
    THEN fileCtx.path \o T_GrepRequiresPattern
  ELSE IF fileCtx.path \in unreadable
    THEN fileCtx.path \o T_ErrorOpen \o T_ENOENT \o <<"]">>
  ELSE fileCtx.path \o <<":", "\n">> \o readFile(fileCtx.path)

\* context.ts 143-155: the parts pushed for the file references.
RECURSIVE contextParts(_, _)
contextParts(fileCtxs, unreadable) ==
  IF fileCtxs = <<>> THEN <<>>
  ELSE LET fileCtx == Head(fileCtxs)
           hint == IF fileCtx.hint = <<>> THEN <<>>
                   ELSE <<T_HintOpen \o fileCtx.hint>>
       IN  <<readFileWithMode(fileCtx, unreadable)>> \o hint
             \o contextParts(Tail(fileCtxs), unreadable)

\* context.ts 141 and 149: every path of the loop is pushed.
filesRead(fileCtxs, unreadable) ==
  [i \in DOMAIN fileCtxs |-> fileCtxs[i].path]

\* context.ts 172: the joined context, before the size check.
contextStr(fileCtxs, unreadable) ==
  join(contextParts(fileCtxs, unreadable), <<"\n", "\n">>)

\* context.ts 175
maxContextLen(originalPrompt) == MAX_PROMPT_LENGTH - Len(originalPrompt) - 100

\* context.ts 128-197 with a catch-less readFileWithMode: a failed read
\* rejects the promise.
buildEnrichedPrompt_ReadThrows(originalPrompt, fileCtxs, unreadable) ==
  [ threw |-> \E i \in DOMAIN fileCtxs :
                fileCtxs[i].mode = "full" /\ fileCtxs[i].path \in unreadable,
    prompt |-> originalPrompt,
    filesRead |-> filesRead(fileCtxs, unreadable) ]

\* context.ts 128-197: the prompt and the list of files of a task without
\* inline data.
buildEnrichedPrompt(originalPrompt, fileCtxs, unreadable) ==
  LET str == contextStr(fileCtxs, unreadable)
      max == maxContextLen(originalPrompt)
      cut == IF Len(str) > max /\ max > 500
               THEN slice0(str, max) \o T_ContextTruncated
               ELSE str
  IN  [ threw |-> FALSE,
        prompt |-> IF contextParts(fileCtxs, unreadable) = <<>>
                     THEN originalPrompt
                     ELSE T_ContextHeader \o cut \o T_TaskHeader \o originalPrompt,
        filesRead |-> filesRead(fileCtxs, unreadable) ]

\* An invocation of spawnSubAgent that has not been entered.
NoAttempt ==
  [ pc            |-> "free",   \* free, prompt, config, running, delivered
    batch         |-> 0,        \* the tool call it belongs to
    task          |-> <<>>,
    backendName   |-> <<>>,     \* spawnSubAgent: const backendName
    mcpConfigPath |-> NoPath,   \* spawnSubAgent: const mcpConfigPath
    cliCommand    |-> <<>>,     \* spawnSubAgent: const cliCommand
    prompt        |-> <<>>,     \* spawnSubAgent: const enrichedPrompt
    filesRead     |-> <<>>,     \* spawnSubAgent: const filesRead
    unreadable    |-> {},       \* history: the context files whose read failed
    afterSignal   |-> FALSE,    \* history: its tool call arrived during the drain
    args          |-> <<>>,     \* spawnSubAgent: const args
    written       |-> {},       \* history: the temp files it wrote
    unlinked      |-> {},       \* history: the paths it called unlink on
    outcome       |-> "none" ]  \* result, rejected, unknownBackend

Init ==
  /\ phase = "idle"
  /\ tasks = <<>>
  /\ defaultTimeout = DEFAULT_TIMEOUT
  /\ cliConfig = [backend |-> B_copilot]
  /\ activeTasks = {}
  /\ now = 0
  /\ run = <<>>
  /\ output = [completed |-> 0, failed |-> 0, total |-> 0, results |-> <<>>,
               total_duration_ms |-> 0]
  /\ isShuttingDown = FALSE
  /\ deadline = NoTimer
  /\ pollTimer = NoTimer
  /\ exitedAt = NoTimer
  /\ ignoredSignals = 0
  /\ env = [home |-> <<"home", "u">>, tmpdir |-> <<"tmp">>,
             COPILOT_CLI |-> <<>>, CLAUDE_CLI |-> <<>>]
  /\ files = [f \in {FULL_MCP_CONFIG} |-> FullMcpServers]
  /\ attempts = <<>>

\* --------------------------------------------------------- the tool handler

\* The input schema without its superRefine: duplicate ids pass.
ValidInput_NoDuplicateCheck(taskList) ==
  /\ Len(taskList) >= MinBatch
  /\ Len(taskList) <= MaxBatch

\* The input schema without .min(1).max(10): a list of any length passes.
ValidInput_NoSizeCheck(taskList) ==
  \A i, j \in 1..Len(taskList) : i # j => taskList[i].id # taskList[j].id

\* index.ts 50-68 SpawnSubagentsInputSchema: between 1 and 10 tasks, and the
\* superRefine that reports every id seen before.
ValidInput(taskList) ==
  /\ Len(taskList) >= MinBatch
  /\ Len(taskList) <= MaxBatch
  /\ \A i, j \in 1..Len(taskList) : i # j => taskList[i].id # taskList[j].id

\* index.ts 227-251: the spawn_subagents branch up to spawnSubAgents' first
\* await (loadCLIConfig); an invalid input returns the 'Invalid input' text.
CallTool(taskList, default_timeout_seconds) ==
  /\ ServerRunning
  /\ phase = "idle"
  /\ IF ValidInput(taskList)
       THEN /\ phase' = "loading"
            /\ defaultTimeout' = IF default_timeout_seconds # 0
                                   THEN default_timeout_seconds ELSE DEFAULT_TIMEOUT
       ELSE /\ phase' = "invalid"
            /\ UNCHANGED defaultTimeout
  /\ tasks' = taskList
  /\ UNCHANGED shutdownVars
  /\ UNCHANGED mcpVars
  /\ UNCHANGED <<cliConfig, activeTasks, now, run, output>>

\* The retry loop without its `attempt === maxAttempts` exit.
AfterAttempt_NoAttemptCap(r, result) ==
  LET r1 == [r EXCEPT !.lastResult = result]
  IN  IF result.success \/ ~isRetryableError(result)
        THEN [r1 EXCEPT !.pc = "fulfilled"]
        ELSE [r1 EXCEPT !.pc = "retryWait", !.retryAt = now + RetryDelayMs]

\* The retry loop returning the first failure when the second attempt fails
\* too, instead of the second attempt's result.
AfterAttempt_KeepFirstFailure(r, result) ==
  LET r1 == IF r.attempt = maxAttempts /\ ~result.success
              THEN r ELSE [r EXCEPT !.lastResult = result]
  IN  IF result.success \/ ~isRetryableError(result) \/ r.attempt = maxAttempts
        THEN [r1 EXCEPT !.pc = "fulfilled"]
        ELSE [r1 EXCEPT !.pc = "retryWait", !.retryAt = now + RetryDelayMs]

\* spawn.ts 565-581, after `lastResult = await spawnSubAgent(...)`: return the
\* result, or start the retry delay.
AfterAttempt(r, result) ==
  LET r1 == [r EXCEPT !.lastResult = result]
  IN  IF result.success \/ ~isRetryableError(result) \/ r.attempt = maxAttempts
        THEN [r1 EXCEPT !.pc = "fulfilled"]
        ELSE [r1 EXCEPT !.pc = "retryWait", !.retryAt = now + RetryDelayMs]

\* spawn.ts 279-306: spawnSubAgent up to its first await, entered as attempt att
\* of spawnWithRetry: either the unknown-backend result, or the preparation of
\* the child (the awaited prompt and MCP config steps).
StartAttempt(task, r, att, config) ==
  LET backendName == BackendNameOf(task, config.backend)
      r1 == [r EXCEPT !.attempt = att, !.startTime = now,
                      !.recommendedTimeout = getRecommendedTimeout(task.mcp_servers),
                      !.timeout = TimeoutMs(task, defaultTimeout),
                      !.timedOut = FALSE, !.hung = FALSE, !.built = 0, !.logged = 0]
  IN  IF ~getBackend(backendName)
        THEN AfterAttempt([r1 EXCEPT !.built = 1],
                          [id |-> task.id, success |-> FALSE,
                           error |-> UnknownBackendError(backendName),
                           output |-> Absent,
                           duration_ms |-> now - now, kind |-> "backend"])
        ELSE [r1 EXCEPT !.pc = "prep"]

\* What one call of spawnSubAgent up to its first await leaves in activeTasks:
\* the id is added, and deleted again on the unknown-backend return.
TrackedAfterStart(set, task, config) ==
  IF getBackend(BackendNameOf(task, config.backend))
    THEN set \cup {task.id}
    ELSE (set \cup {task.id}) \ {task.id}

RECURSIVE TrackedAfterDispatch(_, _, _)
\* activeTasks after tasks.map has entered spawnSubAgent for tasks 1..n in order.
TrackedAfterDispatch(set, n, config) ==
  IF n = 0 THEN set
  ELSE TrackedAfterStart(TrackedAfterDispatch(set, n - 1, config), tasks[n], config)

\* spawn.ts 595-599: loadCLIConfig has returned; tasks.map starts
\* spawnWithRetry, and so attempt 1 of spawnSubAgent, for every task.
Dispatch(backend) ==
  /\ ServerRunning
  /\ phase = "loading"
  /\ cliConfig' = [backend |-> backend]
  /\ phase' = "running"
  /\ run' = [i \in 1..Len(tasks) |->
               StartAttempt(tasks[i], InitRun, 1, [backend |-> backend])]
  /\ activeTasks' = TrackedAfterDispatch(activeTasks, Len(tasks), [backend |-> backend])
  /\ UNCHANGED shutdownVars
  /\ UNCHANGED mcpVars
  /\ UNCHANGED <<tasks, defaultTimeout, now, output>>

\* -------------------------------------------------------- the process runner

\* spawn.ts 369-391: the awaited preparation is over and the Promise executor
\* runs spawn().  spawn() throws on an invalid timeout option: the executor's
\* exception rejects the promise, and nothing after it runs.  Otherwise both
\* timers are armed with the same duration, and either the child runs, or the
\* spawn fails (ENOENT, EACCES): Node then emits 'error' and, the child having
\* no stdio to close, 'close' with the negated errno in the same tick, so both
\* handlers run up to their `await logExecution`; the 'error' handler clears the
\* runner's timer.  (The timer of the timeout option stays armed in Node, but
\* its child.kill() finds no process handle and does nothing: it is modelled
\* as not armed.)
Spawn(i, started) ==
  /\ ServerRunning
  /\ phase = "running"
  /\ i \in Slots
  /\ run[i].pc = "prep"
  /\ LET r == run[i]
         t == tasks[i]
         duration == now - r.startTime
         cliCommand == defaultCommand(BackendNameOf(t, cliConfig.backend))
         errorResult == [id |-> t.id, success |-> FALSE,
                         error |-> SpawnErrorMessage(cliCommand), output |-> Absent,
                         duration_ms |-> duration, kind |-> "spawn"]
         closeResult == [id |-> t.id, success |-> FALSE,
                         error |-> ExitCodeError(ENOENT_CODE),
                         output |-> OutputOrUndefined(parseOutput(<<>>)),
                         duration_ms |-> duration, kind |-> "exit"]
     IN  run' = [run EXCEPT ![i] =
           IF SpawnThrows(t, defaultTimeout)
             THEN [r EXCEPT !.pc = "rejected", !.reason = TimeoutRangeMessage]
           ELSE IF started
             THEN [r EXCEPT !.pc = "alive", !.spawnCalls = @ + 1, !.alive = @ + 1,
                            !.timeoutHandle = now + r.timeout,
                            !.killTimer = now + r.timeout]
           ELSE [r EXCEPT !.pc = "awaitLog", !.spawnCalls = @ + 1, !.closedAt = now,
                          !.timeoutHandle = NoTimer,
                          !.killTimer = NoTimer,
                          !.built = @ + 2,
                          !.pending = @ \cup
                             {[event |-> "error", attempt |-> r.attempt, code |-> ENOENT_CODE,
                               stderr |-> <<>>, result |-> errorResult],
                              [event |-> "close", attempt |-> r.attempt, code |-> ENOENT_CODE,
                               stderr |-> <<>>, result |-> closeResult]}]]
  /\ UNCHANGED shutdownVars
  /\ UNCHANGED mcpVars
  /\ UNCHANGED <<phase, tasks, defaultTimeout, cliConfig, activeTasks, now, output>>

\* The timeout callback building the timeout result and resolving by itself,
\* without waiting for the child's 'close'.
TimeoutFires_Resolves(i, ignored) ==
  /\ ServerRunning
  /\ phase = "running"
  /\ i \in Slots
  /\ run[i].timeoutHandle # NoTimer
  /\ now >= run[i].timeoutHandle
  /\ LET r == [run[i] EXCEPT !.timedOut = TRUE, !.timeoutHandle = NoTimer,
                             !.killTimer = NoTimer]
         result == [id |-> tasks[i].id, success |-> FALSE,
                    error |-> TimeoutError(r.timeout), output |-> Absent,
                    duration_ms |-> now - r.startTime, kind |-> "timeout"]
     IN  run' = [run EXCEPT ![i] =
           IF r.pc = "alive"
             THEN [r EXCEPT !.pc = "awaitLog", !.built = @ + 1, !.closedAt = now,
                            !.pending = @ \cup
                               {[event |-> "close", attempt |-> r.attempt, code |-> 1,
                                 stderr |-> <<>>, result |-> result]}]
             ELSE r]
  /\ UNCHANGED shutdownVars
  /\ UNCHANGED mcpVars
  /\ UNCHANGED <<phase, tasks, defaultTimeout, cliConfig, activeTasks, now, output>>

\* spawn.ts 387-391 and the timer of spawn's timeout option: both were armed in
\* the same tick with the same duration, so they expire in the same timers
\* phase, before any 'close' event is handled.  The option's timer sends
\* killSignal (SIGTERM), the runner's sets timedOut and sends SIGTERM again.
\* A child may ignore SIGTERM: it then stays alive (hung).
\* An armed timer fires whatever the attempt is doing; only clearTimeout stops it.
TimeoutFires(i, ignored) ==
  /\ ServerRunning
  /\ phase = "running"
  /\ i \in Slots
  /\ run[i].timeoutHandle # NoTimer
  /\ now >= run[i].timeoutHandle
  /\ run' = [run EXCEPT ![i].timedOut = TRUE, ![i].timeoutHandle = NoTimer,
                        ![i].killTimer = NoTimer,
                        ![i].hung = (run[i].pc = "alive" /\ ignored)]
  /\ UNCHANGED shutdownVars
  /\ UNCHANGED mcpVars
  /\ UNCHANGED <<phase, tasks, defaultTimeout, cliConfig, activeTasks, now, output>>

\* The 'close' handler testing the exit code before the timedOut flag.
CloseResult_ExitCodeFirst(task, r, code, stdout, stderr, duration) ==
  IF code = 0
    THEN [id |-> task.id, success |-> TRUE, error |-> <<>>,
          output |-> Present(parseOutput(stdout)),
          duration_ms |-> duration, kind |-> "success"]
  ELSE IF r.timedOut
    THEN [id |-> task.id, success |-> FALSE, error |-> TimeoutError(r.timeout),
          output |-> Absent,
          duration_ms |-> duration, kind |-> "timeout"]
  ELSE [id |-> task.id, success |-> FALSE,
        error |-> IF Len(trim(stderr)) > 0 THEN trim(stderr) ELSE ExitCodeError(code),
        output |-> OutputOrUndefined(parseOutput(stdout)),
        duration_ms |-> duration, kind |-> "exit"]

\* The 'close' handler reporting stderr without trimming it.
CloseResult_Untrimmed(task, r, code, stdout, stderr, duration) ==
  IF r.timedOut
    THEN [id |-> task.id, success |-> FALSE, error |-> TimeoutError(r.timeout),
          output |-> Absent,
          duration_ms |-> duration, kind |-> "timeout"]
  ELSE IF code = 0
    THEN [id |-> task.id, success |-> TRUE, error |-> <<>>,
          output |-> Present(parseOutput(stdout)),
          duration_ms |-> duration, kind |-> "success"]
  ELSE [id |-> task.id, success |-> FALSE,
        error |-> IF Len(stderr) > 0 THEN stderr ELSE ExitCodeError(code),
        output |-> OutputOrUndefined(parseOutput(stdout)),
        duration_ms |-> duration, kind |-> "exit"]

\* The 'close' handler leaving a success's output undefined when it is empty.
CloseResult_EmptyOutputDropped(task, r, code, stdout, stderr, duration) ==
  IF r.timedOut
    THEN [id |-> task.id, success |-> FALSE, error |-> TimeoutError(r.timeout),
          output |-> Absent,
          duration_ms |-> duration, kind |-> "timeout"]
  ELSE IF code = 0
    THEN [id |-> task.id, success |-> TRUE, error |-> <<>>,
          output |-> OutputOrUndefined(parseOutput(stdout)),
          duration_ms |-> duration, kind |-> "success"]
  ELSE [id |-> task.id, success |-> FALSE,
        error |-> IF Len(trim(stderr)) > 0 THEN trim(stderr) ELSE ExitCodeError(code),
        output |-> OutputOrUndefined(parseOutput(stdout)),
        duration_ms |-> duration, kind |-> "exit"]

\* spawn.ts 470-497: the result the 'close' handler constructs.
CloseResult(task, r, code, stdout, stderr, duration) ==
  IF r.timedOut
    THEN [id |-> task.id, success |-> FALSE, error |-> TimeoutError(r.timeout),
          output |-> Absent,
          duration_ms |-> duration, kind |-> "timeout"]
  ELSE IF code = 0
    THEN [id |-> task.id, success |-> TRUE, error |-> <<>>,
          output |-> Present(parseOutput(stdout)),
          duration_ms |-> duration, kind |-> "success"]
  ELSE [id |-> task.id, success |-> FALSE,
        error |-> IF Len(trim(stderr)) > 0 THEN trim(stderr) ELSE ExitCodeError(code),
        output |-> OutputOrUndefined(parseOutput(stdout)),
        duration_ms |-> duration, kind |-> "exit"]

\* The 'close' handler without its clearTimeout: the timers stay armed.
Close_KeepsTimer(i, code, stdout, stderr) ==
  /\ ServerRunning
  /\ phase = "running"
  /\ i \in Slots
  /\ run[i].pc = "alive"
  /\ ~run[i].hung
  /\ LET r == run[i]
         result == CloseResult(tasks[i], r, code, stdout, stderr, now - r.startTime)
     IN  run' = [run EXCEPT ![i] =
           [r EXCEPT !.pc = "awaitLog", !.alive = @ - 1, !.closedAt = now,
                     !.built = @ + 1,
                     !.pending = @ \cup
                        {[event |-> "close", attempt |-> r.attempt, code |-> code,
                          stderr |-> stderr, result |-> result]}]]
  /\ UNCHANGED shutdownVars
  /\ UNCHANGED mcpVars
  /\ UNCHANGED <<phase, tasks, defaultTimeout, cliConfig, activeTasks, now, output>>

\* spawn.ts 422-500: the child has exited and its stdio is closed; the 'close'
\* handler runs up to `await logExecution`.  code and stderr are what the child
\* left.  ('exit' precedes 'close' and clears the timer of the timeout option.)
Close(i, code, stdout, stderr) ==
  /\ ServerRunning
  /\ phase = "running"
  /\ i \in Slots
  /\ run[i].pc = "alive"
  /\ ~run[i].hung
  /\ LET r == run[i]
         result == CloseResult(tasks[i], r, code, stdout, stderr, now - r.startTime)
     IN  run' = [run EXCEPT ![i] =
           [r EXCEPT !.pc = "awaitLog", !.timeoutHandle = NoTimer, !.killTimer = NoTimer,
                     !.alive = @ - 1, !.closedAt = now,
                     !.built = @ + 1,
                     !.pending = @ \cup
                        {[event |-> "close", attempt |-> r.attempt, code |-> code,
                          stderr |-> stderr, result |-> result]}]]
  /\ UNCHANGED shutdownVars
  /\ UNCHANGED mcpVars
  /\ UNCHANGED <<phase, tasks, defaultTimeout, cliConfig, activeTasks, now, output>>

\* spawn.ts 500-506 and 527-533: logExecution (241-268) has appended the record
\* of handler h's result and returned; the handler deletes the id and calls
\* resolve.  resolve settles the attempt's
\* promise only the first time it is called for that attempt; spawnWithRetry
\* then continues with the result.
HandlerResumes(i) ==
  /\ ServerRunning
  /\ i \in Slots
  /\ \E h \in run[i].pending :
       LET r == [run[i] EXCEPT !.pending = @ \ {h},
                               !.logged = IF h.attempt = run[i].attempt THEN @ + 1 ELSE @]
       IN  run' = [run EXCEPT ![i] =
             IF r.pc = "awaitLog" /\ h.attempt = r.attempt
               THEN AfterAttempt(r, h.result)
               ELSE r]
  /\ activeTasks' = activeTasks \ {tasks[i].id}
  /\ UNCHANGED shutdownVars
  /\ UNCHANGED mcpVars
  /\ UNCHANGED <<phase, tasks, defaultTimeout, cliConfig, now, output>>

\* spawn.ts 580 and 565-566: the retry delay is over; the loop enters
\* spawnSubAgent again.
RetryFires(i) ==
  /\ ServerRunning
  /\ phase = "running"
  /\ i \in Slots
  /\ run[i].pc = "retryWait"
  /\ now >= run[i].retryAt
  /\ run' = [run EXCEPT ![i] =
       StartAttempt(tasks[i], [run[i] EXCEPT !.retryAt = NoTimer],
                    run[i].attempt + 1, cliConfig)]
  /\ activeTasks' = TrackedAfterStart(activeTasks, tasks[i], cliConfig)
  /\ UNCHANGED shutdownVars
  /\ UNCHANGED mcpVars
  /\ UNCHANGED <<phase, tasks, defaultTimeout, cliConfig, now, output>>

\* ------------------------------------------------------ the batch orchestrator

\* The settled promises mapped to `result.value` alone, without the fallback
\* for a rejected one.
SettledResult_NoFallback(task, r) ==
  IF r.pc = "fulfilled" THEN r.lastResult ELSE NoResult

\* spawn.ts 604-616: one result per settled promise, in input order.
SettledResult(task, r) ==
  IF r.pc = "fulfilled" THEN r.lastResult
  ELSE [id |-> task.id, success |-> FALSE,
        error |-> IF Len(r.reason) > 0 THEN r.reason ELSE UnknownErrorText,
        output |-> Absent,
        duration_ms |-> 0, kind |-> "rejected"]

\* The results collected as the fulfilled ones followed by the fallbacks of the
\* rejected ones, instead of slot by slot.
spawnSubAgentsResults_FulfilledFirst ==
  LET slots == [i \in 1..Len(tasks) |-> i]
      isFulfilled(i) == run[i].pc = "fulfilled"
      isRejected(i) == run[i].pc # "fulfilled"
      order == SelectSeq(slots, isFulfilled) \o SelectSeq(slots, isRejected)
  IN  [k \in 1..Len(order) |-> SettledResult(tasks[order[k]], run[order[k]])]

\* spawn.ts 604-616 spawnSubAgents' return value
spawnSubAgentsResults == [i \in 1..Len(tasks) |-> SettledResult(tasks[i], run[i])]

\* index.ts 255: results.filter((r) => r.success).length
CompletedCount(results) == Cardinality({k \in 1..Len(results) : results[k].success})

\* index.ts 256: results.filter((r) => !r.success).length
FailedCount(results) == Cardinality({k \in 1..Len(results) : ~results[k].success})

\* spawnSubAgents awaiting its promises with Promise.all: the first rejection
\* ends the wait.
Report_FailFast ==
  /\ ServerRunning
  /\ phase = "running"
  /\ \/ \A i \in Slots : run[i].pc \in {"fulfilled", "rejected"}
     \/ \E i \in Slots : run[i].pc = "rejected"
  /\ LET results == spawnSubAgentsResults
     IN  output' = [completed |-> CompletedCount(results),
                    failed |-> FailedCount(results),
                    total |-> Len(results),
                    results |-> results,
                    total_duration_ms |-> now - 0]
  /\ phase' = "reported"
  /\ UNCHANGED shutdownVars
  /\ UNCHANGED mcpVars
  /\ UNCHANGED <<tasks, defaultTimeout, cliConfig, activeTasks, now, run>>

\* spawn.ts 602-616 and index.ts 251-260: every promise has settled, so
\* Promise.allSettled resolves; spawnSubAgents returns and the handler builds
\* its output.
Report ==
  /\ ServerRunning
  /\ phase = "running"
  /\ \A i \in Slots : run[i].pc \in {"fulfilled", "rejected"}
  /\ LET results == spawnSubAgentsResults
     IN  output' = [completed |-> CompletedCount(results),
                    failed |-> FailedCount(results),
                    total |-> Len(results),
                    results |-> results,
                    total_duration_ms |-> now - 0]
  /\ phase' = "reported"
  /\ UNCHANGED shutdownVars
  /\ UNCHANGED mcpVars
  /\ UNCHANGED <<tasks, defaultTimeout, cliConfig, activeTasks, now, run>>

\* --------------------------------------------------------------- shutdown

\* The signals that call shutdown: process.on('SIGTERM'), process.on('SIGINT')
\* and, on Windows, the IPC message 'shutdown'.
ShutdownSignals == {"SIGTERM", "SIGINT", "IPC shutdown"}

\* index.ts 323-327, the loop of shutdown at one evaluation of its condition:
\* wait another second while a task is tracked and the deadline has not come,
\* and call process.exit(0) otherwise.  It sends nothing to the children.
DrainStep(limit) ==
  IF activeTasks # {} /\ now < limit
    THEN /\ pollTimer' = now + PollIntervalMs
         /\ exitedAt' = exitedAt
    ELSE /\ pollTimer' = NoTimer
         /\ exitedAt' = now

\* shutdown(signal) without its `if (isShuttingDown) return`: every signal
\* starts a drain of its own.
shutdown_EverySignalDrains(signal) ==
  /\ ServerRunning
  /\ signal \in ShutdownSignals
  /\ isShuttingDown => ignoredSignals < MaxIgnoredSignals
  /\ ignoredSignals' = IF isShuttingDown THEN ignoredSignals + 1 ELSE ignoredSignals
  /\ isShuttingDown' = TRUE
  /\ deadline' = now + DrainWindowMs
  /\ DrainStep(now + DrainWindowMs)
  /\ UNCHANGED mcpVars
  /\ UNCHANGED <<phase, tasks, defaultTimeout, cliConfig, activeTasks, now, run, output>>

\* index.ts 316-323: shutdown(signal) up to its first await.  A signal that
\* arrives while isShuttingDown is set returns at once.
shutdown(signal) ==
  /\ ServerRunning
  /\ signal \in ShutdownSignals
  /\ IF isShuttingDown
       THEN /\ ignoredSignals < MaxIgnoredSignals
            /\ ignoredSignals' = ignoredSignals + 1
            /\ UNCHANGED <<isShuttingDown, deadline, pollTimer, exitedAt>>
       ELSE /\ isShuttingDown' = TRUE
            /\ deadline' = now + DrainWindowMs
            /\ DrainStep(now + DrainWindowMs)
            /\ UNCHANGED ignoredSignals
  /\ UNCHANGED mcpVars
  /\ UNCHANGED <<phase, tasks, defaultTimeout, cliConfig, activeTasks, now, run, output>>

\* The loop of shutdown that ignores its deadline.
DrainPoll_NoDeadline ==
  /\ ServerRunning
  /\ pollTimer # NoTimer
  /\ now >= pollTimer
  /\ DrainStep(now + 1)
  /\ UNCHANGED mcpVars
  /\ UNCHANGED <<isShuttingDown, deadline, ignoredSignals>>
  /\ UNCHANGED <<phase, tasks, defaultTimeout, cliConfig, activeTasks, now, run, output>>

\* index.ts 324-335: the second awaited by the loop is over; the loop looks at
\* activeTasks and the deadline again.
DrainPoll ==
  /\ ServerRunning
  /\ pollTimer # NoTimer
  /\ now >= pollTimer
  /\ DrainStep(deadline)
  /\ UNCHANGED mcpVars
  /\ UNCHANGED <<isShuttingDown, deadline, ignoredSignals>>
  /\ UNCHANGED <<phase, tasks, defaultTimeout, cliConfig, activeTasks, now, run, output>>

\* ------------------------------------------------------------------- time

\* The deadlines of the armed timers: those of the attempts and the one the
\* shutdown loop awaits.
Deadlines ==
  UNION {{run[i].timeoutHandle, run[i].killTimer, run[i].retryAt} \ {NoTimer} : i \in Slots}
    \cup ({pollTimer} \ {NoTimer})

\* Time passes to the next deadline.  No timer is left waiting past its
\* deadline, and the awaited file operations of a running attempt (building the
\* prompt, writing the MCP config, appending the audit record) end before the
\* next deadline: only children and timers take time.  A handler whose attempt
\* has already been resolved by another handler may still lag behind.
Tick ==
  /\ ServerRunning
  /\ Deadlines # {}
  /\ \A d \in Deadlines : d > now
  /\ \A i \in Slots : run[i].pc \notin {"prep", "awaitLog"}
  /\ now' = SetMin(Deadlines)
  /\ UNCHANGED shutdownVars
  /\ UNCHANGED mcpVars
  /\ UNCHANGED <<phase, tasks, defaultTimeout, cliConfig, activeTasks, run, output>>

\* ---------------------------------------------------------- specifications

Next ==
  \/ \E taskList \in TaskLists : CallTool(taskList, 0)
  \/ \E backend \in ConfigBackends : Dispatch(backend)
  \/ \E i \in 1..MaxTasks, started \in BOOLEAN : Spawn(i, started)
  \/ \E i \in 1..MaxTasks, ignored \in BOOLEAN : TimeoutFires(i, ignored)
  \/ \E i \in 1..MaxTasks, code \in ExitCodes, stderr \in StderrTexts :
       Close(i, code, StdoutSeen, stderr)
  \/ \E i \in 1..MaxTasks : HandlerResumes(i)
  \/ \E i \in 1..MaxTasks : RetryFires(i)
  \/ Report
  \/ Tick

Spec == Init /\ [][Next]_vars

\* One request of one task, with every modelled timeout setting, configured
\* backend and stdout.
SingleTaskNext ==
  \/ \E taskList \in SingleTaskLists, d \in DefaultTimeouts : CallTool(taskList, d)
  \/ \E backend \in SingleTaskConfigBackends : Dispatch(backend)
  \/ \E started \in BOOLEAN : Spawn(1, started)
  \/ \E ignored \in BOOLEAN : TimeoutFires(1, ignored)
  \/ \E code \in ExitCodes, stdout \in StdoutTexts, stderr \in StderrTexts :
       Close(1, code, stdout, stderr)
  \/ HandlerResumes(1)
  \/ RetryFires(1)
  \/ Report
  \/ Tick

SingleTaskSpec == Init /\ [][SingleTaskNext]_vars

\* The requests of the runs with a shutdown signal.
ShutdownTaskLists == SeqsUpTo(SubAgentTask, MaxShutdownTasks)

\* One request, during which a shutdown signal may arrive at any moment.
ShutdownNext ==
  \/ \E taskList \in ShutdownTaskLists : CallTool(taskList, 0)
  \/ \E backend \in ConfigBackends : Dispatch(backend)
  \/ \E i \in 1..MaxShutdownTasks, started \in BOOLEAN : Spawn(i, started)
  \/ \E i \in 1..MaxShutdownTasks, ignored \in BOOLEAN : TimeoutFires(i, ignored)
  \/ \E i \in 1..MaxShutdownTasks, code \in ExitCodes, stderr \in StderrTexts :
       Close(i, code, StdoutSeen, stderr)
  \/ \E i \in 1..MaxShutdownTasks : HandlerResumes(i)
  \/ \E i \in 1..MaxShutdownTasks : RetryFires(i)
  \/ Report
  \/ \E signal \in ShutdownSignals : shutdown(signal)
  \/ DrainPoll
  \/ Tick

ShutdownSpec == Init /\ [][ShutdownNext]_vars

\* The event loop runs whatever callback is ready: the system does not stop
\* while a step is possible.
FairSpec == Spec /\ WF_vars(Next)

\* ------------------------------------- the attempts and their config files

\* The tasks of the runs about config files: on claude without servers, with a
\* server on the configured backend (one id ends in '_claude'), without
\* servers on the configured backend, with an invalid timeout, and on claude
\* with a server.
McpTasks ==
  { [id |-> <<"a">>, timeout_seconds |-> Undefined, cli_backend |-> B_claude,
     mcp_servers |-> <<>>,
     prompt |-> P_go, context |-> <<>>],
    [id |-> <<"a","_","c","l","a","u","d","e">>, timeout_seconds |-> Undefined,
     cli_backend |-> <<>>, mcp_servers |-> <<"github">>,
     prompt |-> P_go, context |-> <<>>],
    [id |-> <<"a">>, timeout_seconds |-> Undefined, cli_backend |-> <<>>,
     mcp_servers |-> <<"github">>,
     prompt |-> P_go, context |-> <<>>],
    [id |-> <<"b">>, timeout_seconds |-> Undefined, cli_backend |-> <<>>,
     mcp_servers |-> <<>>,
     prompt |-> P_go, context |-> <<>>],
    [id |-> <<"c">>, timeout_seconds |-> Rat(-1, 1), cli_backend |-> <<>>,
     mcp_servers |-> <<"github">>,
     prompt |-> P_go, context |-> <<>>],
    [id |-> <<"d">>, timeout_seconds |-> Undefined, cli_backend |-> B_claude,
     mcp_servers |-> <<"github">>,
     prompt |-> P_go, context |-> <<>>] }

\* The config.json of the runs with several attempts: none, and one that
\* selects claude.
McpConfigFiles ==
  {[readable |-> FALSE, hasCli |-> FALSE, cli |-> DefaultCLIConfig],
   [readable |-> TRUE, hasCli |-> TRUE,
    cli |-> [DefaultCLIConfig EXCEPT !.backend = B_claude]]}

\* The server has started in one of the environments envs with one of the
\* config.json files configFiles, loaded by spawnSubAgents (spawn.ts 595); n
\* invocations of spawnSubAgent are followed.
McpInit(envs, configFiles, n) ==
  /\ phase = "idle"
  /\ tasks = <<>>
  /\ defaultTimeout = DEFAULT_TIMEOUT
  /\ \E file \in configFiles : cliConfig = loadCLIConfig(file)
  /\ activeTasks = {}
  /\ now = 0
  /\ run = <<>>
  /\ output = [completed |-> 0, failed |-> 0, total |-> 0, results |-> <<>>,
               total_duration_ms |-> 0]
  /\ isShuttingDown = FALSE
  /\ deadline = NoTimer
  /\ pollTimer = NoTimer
  /\ exitedAt = NoTimer
  /\ ignoredSignals = 0
  /\ env \in envs
  /\ files = [f \in {FULL_MCP_CONFIG} |-> FullMcpServers]
  /\ attempts = [k \in 1..n |-> NoAttempt]

\* spawn.ts 279-306: spawnSubAgent is entered for a task of tool call batch.
\* The ids of one call are distinct (index.ts 50-68), and a task's retry follows
\* its first attempt.
EnterAttempt(k, task, batch) ==
  /\ ServerRunning
  /\ k \in DOMAIN attempts
  /\ attempts[k].pc = "free"
  /\ \A j \in DOMAIN attempts :
       attempts[j].pc \in {"prompt", "config", "running"} /\ attempts[j].batch = batch
         => attempts[j].task.id # task.id
  /\ LET backendName == BackendNameOf(task, cliConfig.backend)
     IN  attempts' = [attempts EXCEPT ![k] =
           [NoAttempt EXCEPT
              !.batch = batch, !.task = task, !.backendName = backendName,
              !.afterSignal = /\ isShuttingDown
                              /\ \A j \in DOMAIN attempts :
                                   attempts[j].pc # "free" => attempts[j].batch # batch,
              !.pc = IF getBackend(backendName) THEN "prompt" ELSE "delivered",
              !.outcome = IF getBackend(backendName) THEN "none" ELSE "unknownBackend"]]
  /\ activeTasks' = TrackedAfterStart(activeTasks, task, cliConfig)
  /\ UNCHANGED shutdownVars
  /\ UNCHANGED <<phase, tasks, defaultTimeout, cliConfig, now, run, output, env, files>>

\* spawn.ts 309-313: buildEnrichedPrompt returns the prompt and the list of
\* context files; the reads of the files in unreadable failed.
BuildPrompt(k, unreadable) ==
  /\ ServerRunning
  /\ k \in DOMAIN attempts
  /\ attempts[k].pc = "prompt"
  /\ LET a == attempts[k]
         built == buildEnrichedPrompt(a.task.prompt, a.task.context, unreadable)
     IN  /\ unreadable \subseteq {a.task.context[i].path : i \in DOMAIN a.task.context}
         /\ attempts' = [attempts EXCEPT ![k] =
              [a EXCEPT !.prompt = built.prompt,
                        !.filesRead = built.filesRead,
                        !.unreadable = unreadable,
                        !.pc = IF built.threw THEN "delivered" ELSE "config",
                        !.outcome = IF built.threw THEN "rejected" ELSE "none"]]
  /\ UNCHANGED shutdownVars
  /\ UNCHANGED <<phase, tasks, defaultTimeout, cliConfig, activeTasks, now, run, output,
                 env, files>>

\* spawn.ts 315-383: createFilteredMCPConfig returns, the argv is built and the
\* Promise executor calls spawn(), which throws on an invalid timeout option:
\* the promise is then rejected and no handler is ever registered.
PrepareAndSpawn(k, writeOk) ==
  /\ ServerRunning
  /\ k \in DOMAIN attempts
  /\ attempts[k].pc = "config"
  /\ LET a == attempts[k]
         created == createFilteredMCPConfig(a.task.mcp_servers, a.task.id,
                                            a.backendName, files, now, writeOk)
         args == buildArgs(a.backendName,
                           backendOptions(a.backendName, cliConfig, created.path))
         throws == SpawnThrows(a.task, defaultTimeout)
     IN  /\ files' = IF created.written = {} THEN files
                     ELSE LET w == CHOOSE w \in created.written : TRUE
                          IN  writeFile(files, w.path, w.content)
         /\ attempts' = [attempts EXCEPT ![k] =
              [a EXCEPT !.mcpConfigPath = created.path,
                        !.cliCommand = getCLICommand(a.backendName, cliConfig),
                        !.args = args,
                        !.written = {w.path : w \in created.written},
                        !.pc = IF throws THEN "delivered" ELSE "running",
                        !.outcome = IF throws THEN "rejected" ELSE "none"]]
  /\ UNCHANGED shutdownVars
  /\ UNCHANGED <<phase, tasks, defaultTimeout, cliConfig, activeTasks, now, run, output,
                 env>>

\* spawn.ts 455-458 and 503-506, 514-516 and 530-533: the 'close' handler, or
\* the 'error' handler, unlinks the MCP config when it lies in the temp
\* directory, deletes the task id from activeTasks and resolves.
ChildEnds(k) ==
  /\ ServerRunning
  /\ k \in DOMAIN attempts
  /\ attempts[k].pc = "running"
  /\ LET a == attempts[k]
         cleanup == a.mcpConfigPath # NoPath /\ isTempPath(a.mcpConfigPath)
     IN  /\ files' = IF cleanup THEN unlink(files, a.mcpConfigPath) ELSE files
         /\ attempts' = [attempts EXCEPT ![k] =
              [a EXCEPT !.pc = "delivered", !.outcome = "result",
                        !.unlinked = IF cleanup THEN {a.mcpConfigPath} ELSE {}]]
         /\ activeTasks' = activeTasks \ {a.task.id}
  /\ UNCHANGED shutdownVars
  /\ UNCHANGED <<phase, tasks, defaultTimeout, cliConfig, now, run, output, env>>

\* A millisecond passes.
ClockTick ==
  /\ now < MaxClockMs
  /\ now' = now + 1
  /\ UNCHANGED shutdownVars
  /\ UNCHANGED mcpVars
  /\ UNCHANGED <<phase, tasks, defaultTimeout, cliConfig, activeTasks, run, output>>

\* Attempts of up to MaxBatches concurrent tool calls, MaxInFlight at a time.
McpNext ==
  \/ \E k \in 1..MaxInFlight, task \in McpTasks, batch \in 1..MaxBatches :
       EnterAttempt(k, task, batch)
  \/ \E k \in 1..MaxInFlight, unreadable \in SUBSET ContextPaths :
       BuildPrompt(k, unreadable)
  \/ \E k \in 1..MaxInFlight, writeOk \in BOOLEAN : PrepareAndSpawn(k, writeOk)
  \/ \E k \in 1..MaxInFlight : ChildEnds(k)
  \/ ClockTick

McpSpec == McpInit(Environments, McpConfigFiles, MaxInFlight) /\ [][McpNext]_vars

\* One attempt, under every config.json.
ArgvNext ==
  \/ \E task \in McpTasks : EnterAttempt(1, task, 1)
  \/ \E unreadable \in SUBSET ContextPaths : BuildPrompt(1, unreadable)
  \/ \E writeOk \in BOOLEAN : PrepareAndSpawn(1, writeOk)
  \/ ChildEnds(1)
  \/ ClockTick

ArgvSpec == McpInit(Environments, ConfigFiles, 1) /\ [][ArgvNext]_vars

\* Tasks with context: one small file; two files and a hint; a file larger
\* than the prompt limit, first or second; a long prompt; a pattern-less grep;
\* no file at all.
FileContext(path, mode, hint) == [path |-> path, mode |-> mode, hint |-> hint]

ContextTask(id, prompt, context) ==
  [id |-> id, timeout_seconds |-> Undefined, cli_backend |-> <<>>,
   mcp_servers |-> <<>>, prompt |-> prompt, context |-> context]

LongPromptLen == 5450

PromptTasks ==
  { ContextTask(<<"e">>, P_go, <<FileContext(P_notes, "full", <<>>)>>),
    ContextTask(<<"f">>, P_go, <<FileContext(P_notes, "full", T_hint),
                                  FileContext(P_log, "full", <<>>)>>),
    ContextTask(<<"g">>, P_go, <<FileContext(P_dump, "full", <<>>),
                                  FileContext(P_notes, "full", <<>>)>>),
    ContextTask(<<"h">>, P_go, <<FileContext(P_notes, "full", <<>>),
                                  FileContext(P_dump, "full", <<>>)>>),
    ContextTask(<<"i">>, Fill("p", LongPromptLen),
                <<FileContext(P_log, "full", <<>>)>>),
    ContextTask(<<"j">>, P_go, <<FileContext(P_notes, "grep", <<>>)>>),
    ContextTask(<<"k">>, P_go, <<>>) }

\* One attempt of a task with context.
PromptNext ==
  \/ \E task \in PromptTasks : EnterAttempt(1, task, 1)
  \/ \E unreadable \in SUBSET ContextPaths : BuildPrompt(1, unreadable)
  \/ \E writeOk \in BOOLEAN : PrepareAndSpawn(1, writeOk)
  \/ ChildEnds(1)
  \/ ClockTick

PromptSpec == McpInit(Environments, McpConfigFiles, 1) /\ [][PromptNext]_vars

\* Attempts of up to MaxBatches tool calls, of the task without servers on the
\* default backend, while shutdown signals arrive; time passes from one look of
\* the drain loop to the next.
DrainNext ==
  \/ \E k \in 1..MaxInFlight, batch \in 1..MaxBatches :
       \E task \in {t \in McpTasks : t.id = <<"b">>} : EnterAttempt(k, task, batch)
  \/ \E k \in 1..MaxInFlight : BuildPrompt(k, {})
  \/ \E k \in 1..MaxInFlight : PrepareAndSpawn(k, TRUE)
  \/ \E k \in 1..MaxInFlight : ChildEnds(k)
  \/ \E signal \in ShutdownSignals : shutdown(signal)
  \/ DrainPoll
  \/ Tick

DrainSpec ==
  /\ McpInit({e \in Environments : e.home[1] # e.tmpdir[1]},
             {file \in McpConfigFiles : ~file.readable}, MaxInFlight)
  /\ [][DrainNext]_vars

\* One attempt, under every setting of the command overrides.
CommandSpec == McpInit(CommandEnvironments, CommandConfigFiles, 1) /\ [][ArgvNext]_vars

\* ------------------------------------------------------------------ claims

HasPrefix(s, prefix) ==
  Len(s) >= Len(prefix) /\ SubSeq(s, 1, Len(prefix)) = prefix

T_TimeoutAfter == <<"T","i","m","e","o","u","t"," ","a","f","t","e","r"," ">>

\* The retryable failures as the retry policy states them: a failure whose
\* error text contains, in any letter case, one of the five markers.
RetryMarkers == {T_timeout, T_etimedout, T_econnreset, T_econnrefused, T_spawn}

StatedRetryable(result) ==
  /\ ~result.success
  /\ \E m \in RetryMarkers : includes(toLowerCase(result.error), m)

\* A result built from a child's exit, timeout or failed start.
FromChild(result) == result.kind \in {"success", "exit", "timeout", "spawn"}

\* C1: when spawnSubAgents has returned, it returned exactly one result per
\* input task, and the i-th result carries the id of the i-th task, whatever
\* the order in which the tasks finished and however each one ended.
C1_ResultsInInputOrder ==
  phase = "reported" =>
    /\ Len(output.results) = Len(tasks)
    /\ \A i \in 1..Len(tasks) : output.results[i].id = tasks[i].id

\* C1 witness: a two-task report in which the second task's child finished
\* before the first task's (both were dispatched together).
C1_Witness ==
  /\ phase = "reported"
  /\ Len(tasks) = 2
  /\ FromChild(output.results[1]) /\ FromChild(output.results[2])
  /\ output.results[2].duration_ms < output.results[1].duration_ms
  /\ output.results[1].kind = "timeout"
  /\ output.results[2].success

\* C2: in every report of the handler completed + failed = total = the number
\* of submitted tasks, and every submitted id occurs exactly once in results.
C2_CountsAddUp ==
  phase = "reported" =>
    /\ output.completed + output.failed = output.total
    /\ output.total = Len(tasks)
    /\ \A i \in 1..Len(tasks) :
         Cardinality({k \in 1..Len(output.results) :
                        output.results[k].id = tasks[i].id}) = 1

\* C2 witness: a report with one completed and one failed task.
C2_Witness ==
  /\ phase = "reported"
  /\ output.completed = 1
  /\ output.failed = 1
  /\ output.total = 2

\* C3: every accepted call eventually returns its report, also when a child
\* does not exit after the timeout's SIGTERM.
C3_EveryBatchReports == (phase = "running") ~> (phase = "reported")

\* A timed-out result: a failure whose error starts with 'Timeout after ' and
\* whose duration is at least the resolved timeout.
TimeoutShaped(result, timeout) ==
  /\ ~result.success
  /\ HasPrefix(result.error, T_TimeoutAfter)
  /\ result.duration_ms >= timeout

\* C4: while a child runs, the runner's timer and the timer of spawn's timeout
\* option are armed for the same instant, the resolved timeout after the spawn;
\* and if the timeout elapsed while the child was running (timedOut), the
\* attempt's result is a failure whose error is 'Timeout after ...' and whose
\* duration_ms is at least the resolved timeout.
C4_TimeoutResult ==
  \A i \in Slots :
    LET r == run[i]
    IN  /\ (r.pc = "alive" /\ ~r.timedOut) =>
             /\ r.timeoutHandle # NoTimer
             /\ r.killTimer = r.timeoutHandle
             /\ r.timeoutHandle >= r.startTime + r.timeout
        /\ (r.pc = "awaitLog" /\ r.timedOut) =>
             \A h \in r.pending :
               h.attempt = r.attempt => TimeoutShaped(h.result, r.timeout)
        /\ (r.pc \in {"retryWait", "fulfilled"} /\ r.timedOut) =>
             TimeoutShaped(r.lastResult, r.timeout)

\* C4 witness: an attempt timed out although its child then reported exit
\* code 0, and its result has been delivered.
C4_Witness ==
  \E i \in Slots :
    /\ run[i].timedOut
    /\ run[i].pc = "retryWait"
    /\ run[i].lastResult.duration_ms >= run[i].timeout
    /\ run[i].timeout > 0

\* C5: an invocation of spawnSubAgent constructs a result at most once.
C5_OneResultPerInvocation == \A i \in Slots : run[i].built <= 1

RECURSIVE SpawnCallsUpTo(_)
\* The number of child processes started for the tasks 1..n.
SpawnCallsUpTo(n) == IF n = 0 THEN 0 ELSE run[n].spawnCalls + SpawnCallsUpTo(n - 1)

\* C6: no task is attempted more than twice and no task starts more than two
\* child processes, so a batch of N tasks starts at most 2N.
C6_AtMostTwoAttempts ==
  /\ \A i \in Slots : run[i].spawnCalls <= 2 /\ run[i].attempt <= 2
  /\ SpawnCallsUpTo(Len(run)) <= 2 * Len(tasks)

\* C6 witness: a task has started its second child process.
C6_Witness == \E i \in Slots : run[i].spawnCalls = 2 /\ run[i].pc = "alive"

C8_ExitNeverRetried ==
  \A i \in Slots : run[i].pc = "retryWait" => run[i].lastResult.kind # "exit"

\* C8 as amended: a child that closes with a non-zero code before the timeout
\* fired yields a failure whose error is its trimmed stderr, or 'Exit code: N'
\* when the trimmed stderr is empty; the task is retried exactly if that error
\* text is a stated retryable failure, and is terminal otherwise.
C8_ExitRetriedOnlyOnMarker ==
  \A i \in Slots :
    LET r == run[i]
    IN  /\ \A h \in r.pending :
             (h.event = "close" /\ h.code # 0 /\ h.attempt = r.attempt
                /\ r.pc = "awaitLog" /\ ~r.timedOut) =>
               /\ ~h.result.success
               /\ h.result.error =
                    IF trim(h.stderr) # <<>> THEN trim(h.stderr)
                    ELSE <<"E","x","i","t"," ","c","o","d","e",":"," ">> \o IntStr(h.code)
        /\ (r.pc = "retryWait" /\ r.lastResult.kind = "exit") =>
             StatedRetryable(r.lastResult)
        /\ (r.pc = "fulfilled" /\ r.attempt = 1 /\ r.lastResult.kind = "exit") =>
             ~StatedRetryable(r.lastResult)

\* C8 witness: a first attempt that exited non-zero with 'invalid prompt' on
\* stderr has been returned as the task's result, without a retry.
C8_Witness ==
  \E i \in Slots :
    /\ run[i].pc = "fulfilled"
    /\ run[i].attempt = 1
    /\ run[i].lastResult.kind = "exit"
    /\ run[i].lastResult.error =
         <<"i","n","v","a","l","i","d"," ","p","r","o","m","p","t">>

\* C9: once spawnSubAgents has returned, none of the batch's ids is left in
\* activeTasks, whatever way each task's execution ended.
C9_TrackerEmptyAfterReturn ==
  phase = "reported" => \A i \in 1..Len(tasks) : tasks[i].id \notin activeTasks

\* C10: from its dispatch until its final result exists, through the first
\* attempt, the retry delay and the second attempt, a task's id is in
\* activeTasks.
C10_TrackedUntilFinalResult ==
  \A i \in Slots :
    run[i].pc \in {"prep", "alive", "awaitLog", "retryWait"} =>
      tasks[i].id \in activeTasks

\* C11: once a shutdown signal has been handled, the server does not run past
\* the drain deadline, 30 s after the signal: while it still runs, the clock is
\* not beyond the deadline and the next look at activeTasks is at most 1 s
\* away; and when it has exited, it did so at most 30 s + 1 s after the signal,
\* whether or not activeTasks had become empty.
C11_ExitWithinDrainWindow ==
  isShuttingDown =>
    /\ deadline >= 30000
    /\ IF exitedAt = NoTimer
         THEN /\ now <= deadline
              /\ pollTimer # NoTimer
              /\ pollTimer <= now + 1000
              /\ pollTimer <= deadline
         ELSE /\ exitedAt >= deadline - 30000
              /\ exitedAt <= deadline + 1000

\* C11 witness: the server has exited at the drain deadline with a task id
\* still in activeTasks.
C11_Witness ==
  /\ isShuttingDown
  /\ exitedAt = deadline
  /\ activeTasks # {}

\* C12: when the server exits before the drain deadline, no task of the
\* request is still awaiting its final result, neither running a child
\* process nor waiting to be retried.
C12_EarlyExitOnlyWhenIdle ==
  (exitedAt # NoTimer /\ exitedAt < deadline) =>
    \A i \in Slots : run[i].pc \in {"fulfilled", "rejected"}

\* A valid request as the input contract states it: 1 to 10 tasks with
\* pairwise distinct ids.
StatedValidBatch(taskList) ==
  /\ Len(taskList) >= 1
  /\ Len(taskList) <= 10
  /\ Cardinality({taskList[k].id : k \in 1..Len(taskList)}) = Len(taskList)

\* C13: a request whose task list is empty, longer than 10 or repeats an id is
\* rejected as a whole: it is never dispatched, so no attempt of any of its
\* tasks exists, no child was spawned and activeTasks is as it was (empty).
C13_InvalidBatchRejectedWhole ==
  ~StatedValidBatch(tasks) =>
    /\ phase \in {"idle", "invalid"}
    /\ run = <<>>
    /\ activeTasks = {}

\* C13 witness: the request <<a, b, a>> has been rejected, task b with its
\* unique id included.
C13_Witness ==
  /\ phase = "invalid"
  /\ Len(tasks) = 3
  /\ tasks[1].id = tasks[3].id
  /\ tasks[2].id \notin {tasks[1].id, tasks[3].id}
  /\ run = <<>>

\* C14: every task of an accepted batch is dispatched; a step of one task
\* leaves every sibling's execution state as it is; and the batch reports only
\* when every task has settled, each slot carrying the result of its own task.
C14_SiblingsIndependent ==
  /\ [](phase \in {"running", "reported"} =>
         /\ Len(run) = Len(tasks)
         /\ \A i \in Slots : run[i].attempt >= 1
         /\ phase = "reported" =>
              \A i \in Slots :
                /\ run[i].pc \in {"fulfilled", "rejected"}
                /\ run[i].pc = "fulfilled" => output.results[i] = run[i].lastResult)
  /\ [][\A i, j \in DOMAIN run \cap DOMAIN run' :
          (i # j /\ run'[i] # run[i]) => run'[j] = run[j]]_vars

\* C14 witness: a report of two tasks in which the first ended by an internal
\* exception and the second, whose child was spawned, succeeded.
C14_Witness ==
  /\ phase = "reported"
  /\ Len(tasks) = 2
  /\ run[1].pc = "rejected"
  /\ run[2].spawnCalls = 1
  /\ output.results[2].success
  /\ output.results[2].id = tasks[2].id

\* C15: spawnSubAgents returns whenever every promise has settled, rejected
\* ones included; a rejected promise becomes a failure with a non-empty error
\* message in its task's slot, and every other slot keeps the result its task
\* produced.
C15_RejectionBecomesFailure ==
  /\ (phase = "running" /\ \A i \in Slots : run[i].pc \in {"fulfilled", "rejected"}) =>
       ENABLED Report
  /\ phase = "reported" =>
       \A i \in Slots :
         IF run[i].pc = "rejected"
           THEN /\ output.results[i].id = tasks[i].id
                /\ ~output.results[i].success
                /\ Len(output.results[i].error) > 0
           ELSE output.results[i] = run[i].lastResult

\* C15 witness: a report whose first slot holds the failure made from a
\* rejected promise and whose second slot holds a failure its own child
\* produced.
C15_Witness ==
  /\ phase = "reported"
  /\ Len(tasks) = 2
  /\ output.results[1].kind = "rejected"
  /\ output.results[1].error = TimeoutRangeMessage
  /\ output.results[2].kind = "exit"

\* The effective timeout in milliseconds as stated: the largest of the explicit
\* timeout_seconds (when given), the recommended timeout of the requested MCP
\* servers and the batch default.
StatedEffectiveTimeoutMs(task) ==
  LET base == Max(getRecommendedTimeout(task.mcp_servers), defaultTimeout) * 1000
      t == task.timeout_seconds
      explicit == (t.num * 1000) \div t.den
  IN  IF t.num # 0 /\ explicit > base THEN explicit ELSE base

\* C16: the timeout of every attempt is the stated effective timeout, and
\* both timers of a running child are armed with it.
C16_TimeoutIsMaxOfThree ==
  \A i \in Slots :
    LET r == run[i]
    IN  r.attempt >= 1 =>
          /\ r.timeout = StatedEffectiveTimeoutMs(tasks[i])
          /\ (r.pc = "alive" /\ ~r.timedOut) =>
                /\ r.timeoutHandle = r.startTime + StatedEffectiveTimeoutMs(tasks[i])
                /\ r.killTimer = r.timeoutHandle

\* The servers a task requests, as a set.
Requested(task) == {task.mcp_servers[k] : k \in 1..Len(task.mcp_servers)}

\* C17: a task requesting only playwright has an effective timeout of at least
\* 120 s, one requesting only filesystem of at least 30 s, one requesting both
\* of at least 120 s, whatever its other fields and the batch default.
C17_RecommendedMinimumHolds ==
  \A i \in Slots :
    LET r == run[i]
        servers == Requested(tasks[i])
    IN  r.attempt >= 1 =>
          /\ servers = {"playwright"} => r.timeout >= 120 * 1000
          /\ servers = {"filesystem"} => r.timeout >= 30 * 1000
          /\ servers = {"playwright", "filesystem"} => r.timeout >= 120 * 1000

\* 'Timeout'
T_Timeout == <<"T","i","m","e","o","u","t">>

ProducedResults ==
  UNION {{h.result : h \in run[i].pending} \cup ({run[i].lastResult} \ {NoResult}) :
           i \in Slots}
    \cup {output.results[k] : k \in 1..Len(output.results)}

\* C19: every result is either a success with its output set and no error, or
\* a failure with a non-empty error.
C19_SuccessXorError ==
  \A result \in ProducedResults :
    IF result.success
      THEN result.output # {} /\ result.error = <<>>
      ELSE Len(result.error) > 0

\* C19 witness: the report holds the success of a child that wrote nothing to
\* stdout: its output is set, to the empty text.
C19_Witness ==
  /\ phase = "reported"
  /\ output.results[1].success
  /\ output.results[1].output = {<<>>}

\* 'Unknown CLI backend'
T_UnknownBackend ==
  <<"U","n","k","n","o","w","n"," ","C","L","I"," ","b","a","c","k","e","n","d">>

\* C20: a task whose selected backend name is not registered ends with its
\* first attempt, a failure whose error starts with 'Unknown CLI backend',
\* without a child process and without a retry.
C20_UnknownBackendFailsOnce ==
  \A i \in Slots :
    LET r == run[i]
        name == toLowerCase(BackendNameOf(tasks[i], cliConfig.backend))
    IN  (r.attempt >= 1 /\ name \notin {B_copilot, B_claude}) =>
          /\ r.pc = "fulfilled"
          /\ r.attempt = 1
          /\ r.spawnCalls = 0
          /\ ~r.lastResult.success
          /\ HasPrefix(r.lastResult.error, T_UnknownBackend)

\* C22: when the child cannot be started (spawn emits 'error'), the attempt
\* ends with a failure that carries the spawn error message of the operating
\* system, never 'Exit code: ...'; the failure is retryable, so a first attempt
\* is followed by the retry delay and the failure is reported only after the
\* second attempt.
C22_SpawnFailureRetried ==
  [][\A i \in DOMAIN run :
       (/\ run[i].pc = "awaitLog"
        /\ \E h \in run[i].pending : h.event = "error" /\ h.attempt = run[i].attempt
        /\ i \in DOMAIN run'
        /\ run'[i].pc # "awaitLog")
       => /\ run'[i].lastResult.kind = "spawn"
          /\ ~run'[i].lastResult.success
          /\ HasPrefix(run'[i].lastResult.error, T_spawn)
          /\ isRetryableError(run'[i].lastResult)
          /\ run'[i].pc = IF run[i].attempt = 1 THEN "retryWait" ELSE "fulfilled"]_vars

\* C23: the result reported for a retried task is the result of its second
\* attempt, whatever it is: when a handler of attempt 2 resumes, the promise is
\* fulfilled with that handler's result at once, with no retry delay armed and
\* no third attempt; the retry delay is followed by attempt 2 only; a fulfilled
\* result never changes, and the report carries it.
C23_SecondAttemptIsFinal ==
  /\ [](phase = "reported" =>
          \A i \in DOMAIN run :
            run[i].pc = "fulfilled" /\ run[i].attempt = maxAttempts
              => output.results[i] = run[i].lastResult)
  /\ [][\A i \in DOMAIN run \cap DOMAIN run' :
          /\ run'[i].attempt <= maxAttempts
          /\ (run[i].attempt = maxAttempts /\ run[i].pc = "awaitLog"
                /\ run'[i].pc # "awaitLog")
               => /\ run'[i].pc = "fulfilled"
                  /\ run'[i].retryAt = NoTimer
                  /\ \E h \in run[i].pending :
                       h.attempt = maxAttempts /\ run'[i].lastResult = h.result
          /\ (run[i].pc = "retryWait" /\ run'[i].pc # "retryWait")
               => /\ run'[i].attempt = maxAttempts
                  /\ run'[i].retryAt = NoTimer
                  /\ \/ run'[i].pc = "prep"
                     \/ run'[i].pc = "fulfilled" /\ run'[i].lastResult.kind = "backend"
          /\ run[i].pc = "fulfilled"
               => run'[i].pc = "fulfilled" /\ run'[i].lastResult = run[i].lastResult]_vars

\* A retried task is reported as a success: its second attempt succeeded.
C23_Witness ==
  /\ phase = "reported"
  /\ \E i \in DOMAIN run :
       /\ run[i].attempt = maxAttempts
       /\ run[i].pc = "fulfilled"
       /\ output.results[i].success

\* C24: when the timeout timer has fired before the 'close' handler runs, the
\* handler's result is the timeout result whatever the exit code, zero
\* included, and it is the timeout result in no other case; once the exit has
\* been handled no timer of the attempt is armed, and the attempt's timedOut
\* flag does not change any more.
C24_TimerBeforeExitWins ==
  /\ [](\A i \in DOMAIN run :
          run[i].pc # "alive"
            => run[i].timeoutHandle = NoTimer /\ run[i].killTimer = NoTimer)
  /\ [][\A i \in DOMAIN run \cap DOMAIN run' :
          /\ (run[i].pc = "alive" /\ run'[i].pc = "awaitLog")
               => \E h \in run'[i].pending \ run[i].pending :
                    /\ h.event = "close"
                    /\ h.attempt = run[i].attempt
                    /\ (h.result.kind = "timeout") <=> run[i].timedOut
                    /\ run[i].timedOut
                         => /\ ~h.result.success
                            /\ h.result.error = TimeoutError(run[i].timeout)
          /\ (run[i].pc # "alive" /\ run'[i].attempt = run[i].attempt)
               => run'[i].timedOut = run[i].timedOut]_vars

\* The child exited with code 0 after the timer had fired, and the handler
\* built the timeout result.
C24_Witness ==
  \E i \in DOMAIN run : \E h \in run[i].pending :
    /\ h.event = "close"
    /\ h.code = 0
    /\ h.result.kind = "timeout"
    /\ ~h.result.success

\* C29: every attempt that produces a result appends exactly one audit record:
\* never more than one, and one by the time its result is delivered to the
\* retry loop (success, non-zero exit, timeout, spawn error, unknown backend).
C29_OneAuditRecordPerAttempt ==
  \A i \in DOMAIN run :
    /\ run[i].logged <= 1
    /\ run[i].pc \in {"retryWait", "fulfilled"} => run[i].logged = 1

\* C30: the duration_ms of a reported result is never negative and is the time
\* from the task's dispatch (time 0, when the request is dispatched) to its
\* terminal outcome; for a retried task it therefore covers the first attempt,
\* the retry delay and the second attempt.
C30_DurationFromDispatch ==
  /\ [](phase = "reported" =>
          \A i \in DOMAIN output.results : output.results[i].duration_ms >= 0)
  /\ [][\A i \in DOMAIN run \cap DOMAIN run' :
          (run[i].pc # "fulfilled" /\ run'[i].pc = "fulfilled")
            => run'[i].lastResult.duration_ms = now' - 0]_vars

\* The options present in the argv of an attempt.
ArgvOf(a) == {a.args[n] : n \in DOMAIN a.args}

\* C21: a permission flag is in the argv only if the setting of the section of
\* the backend that is run is explicitly true: --allow-all-tools and
\* --allow-all-paths under copilot.allowAllTools and copilot.allowAllPaths when
\* the Copilot backend runs, --dangerously-skip-permissions under
\* claude.allowAllTools when the Claude backend runs; for every backend name
\* the registry accepts and every config.json.
C21_FlagsOnlyWhenEnabled ==
  \A k \in DOMAIN attempts :
    LET a == attempts[k]
        ran == toLowerCase(a.backendName)
    IN  /\ "--allow-all-tools" \in ArgvOf(a)
             => ran = B_copilot /\ cliConfig.copilot.allowAllTools = "true"
        /\ "--allow-all-paths" \in ArgvOf(a)
             => ran = B_copilot /\ cliConfig.copilot.allowAllPaths = "true"
        /\ "--dangerously-skip-permissions" \in ArgvOf(a)
             => ran = B_claude /\ cliConfig.claude.allowAllTools = "true"

\* C25: by the time an attempt's outcome is delivered, unlink has been called
\* on every MCP config file the attempt wrote to the temp directory, whatever
\* the outcome, an exception thrown after the file was created included.
C25_TempConfigRemovedOnEveryOutcome ==
  \A k \in DOMAIN attempts :
    attempts[k].pc = "delivered" => attempts[k].written \subseteq attempts[k].unlinked

\* C26: no attempt deletes or changes the shared mcp-subagent.json, and an
\* attempt unlinks only files it created itself, wherever the configuration
\* directory and the temp directory lie.
C26_SharedConfigUntouched ==
  /\ [](\A k \in DOMAIN attempts : attempts[k].unlinked \subseteq attempts[k].written)
  /\ [][(FULL_MCP_CONFIG \in DOMAIN files)
          => /\ FULL_MCP_CONFIG \in DOMAIN files'
             /\ files[FULL_MCP_CONFIG] = files'[FULL_MCP_CONFIG] ]_vars

\* C27: two attempts in flight at the same time, of one tool call or of two,
\* never use the same temp config file.
C27_TempPathsDistinct ==
  \A j, k \in DOMAIN attempts :
    (j # k /\ attempts[j].pc = "running" /\ attempts[k].pc = "running")
      => attempts[j].written \cap attempts[k].written = {}

\* C28: whenever a task runs on the Claude backend with --mcp-config, no server
\* entry of the file passed holds a 'type' or a 'tools' field, whether servers
\* were requested or not and whether the temp file could be created or not.
C28_ClaudeConfigStripped ==
  \A k \in DOMAIN attempts :
    LET a == attempts[k]
    IN  (/\ a.pc = "running"
         /\ toLowerCase(a.backendName) = B_claude
         /\ "--mcp-config" \in ArgvOf(a)
         /\ a.mcpConfigPath \in DOMAIN files)
        => \A server \in DOMAIN files[a.mcpConfigPath] :
             files[a.mcpConfigPath][server] \cap {"type", "tools"} = {}

\* The table of recommended timeouts as stated: the seven named servers, and
\* 60 s for every other name.
StatedServerMinimum(server) ==
  CASE server \in {"filesystem", "memory"}      -> 30
    [] server \in {"github", "google-tasks"}    -> 60
    [] server \in {"google-calendar", "leetcode"} -> 90
    [] server = "playwright"                    -> 120
    [] OTHER                                    -> 60

\* C31: the recommended timeout of an attempt is the largest of the minima of
\* the servers its task requests, a name that is not in the table counting
\* 60 s, and it is 60 s when the task requests no server.
C31_RecommendedIsMaxOfMinima ==
  \A i \in DOMAIN run :
    run[i].attempt >= 1 =>
      LET servers == tasks[i].mcp_servers
          minima == {StatedServerMinimum(servers[k]) : k \in 1..Len(servers)}
      IN  /\ Len(servers) = 0 => run[i].recommendedTimeout = 60
          /\ Len(servers) > 0
               => /\ run[i].recommendedTimeout \in minima
                  /\ \A m \in minima : m <= run[i].recommendedTimeout

\* The executable as stated, for the backend that runs: its environment
\* override, else its configured command, else its built-in default.
StatedCommand(ran) ==
  IF ran = B_copilot
    THEN IF Len(env.COPILOT_CLI) > 0 THEN env.COPILOT_CLI
         ELSE IF Len(cliConfig.copilot.command) > 0 THEN cliConfig.copilot.command
         ELSE B_copilot
    ELSE IF Len(env.CLAUDE_CLI) > 0 THEN env.CLAUDE_CLI
         ELSE IF Len(cliConfig.claude.command) > 0 THEN cliConfig.claude.command
         ELSE B_claude

\* C32: the executable of an attempt is the environment override of the
\* backend it runs on if set, else that backend's configured command, else the
\* backend's default command, for every backend name the registry accepts.
C32_CommandResolution ==
  \A k \in DOMAIN attempts :
    attempts[k].pc = "running"
      => attempts[k].cliCommand = StatedCommand(toLowerCase(attempts[k].backendName))

\* The context files of an attempt that were read successfully, in the order
\* of the task's references.
StatedFilesRead(a) ==
  SelectSeq([i \in DOMAIN a.task.context |-> a.task.context[i]],
            LAMBDA fileCtx : fileCtx.mode = "full" /\ fileCtx.path \notin a.unreadable)

\* C33: the context_files_read of a TaskResult lists exactly the context file
\* paths that were read successfully; a file whose read failed, and that is
\* rendered as an '[error: ...]' placeholder, is not listed.
C33_OnlyFilesReadAreListed ==
  \A k \in DOMAIN attempts :
    attempts[k].outcome = "result" =>
      attempts[k].filesRead =
        [i \in DOMAIN StatedFilesRead(attempts[k]) |-> StatedFilesRead(attempts[k])[i].path]

HasSuffix(s, suffix) ==
  Len(s) >= Len(suffix) /\ SubSeq(s, Len(s) - Len(suffix) + 1, Len(s)) = suffix

\* The attempts whose prompt has been built after the read of a context file
\* failed.
ReadFailed(a) ==
  /\ a.pc \in {"config", "running", "delivered"}
  /\ a.outcome # "unknownBackend"
  /\ \E i \in DOMAIN a.task.context :
       a.task.context[i].mode = "full" /\ a.task.context[i].path \in a.unreadable

\* The entry of a file reference in the context block: the placeholder of a
\* file whose read failed, the text of any other file under its path.
StatedEntry(fileCtx, unreadable) ==
  IF fileCtx.mode = "full" /\ fileCtx.path \in unreadable
    THEN fileCtx.path \o T_ErrorOpen \o T_ENOENT \o <<"]">>
    ELSE readFileWithMode(fileCtx, {})

\* The assembled entries are longer than the headroom the prompt leaves, and
\* the context block is cut.
ContextIsCut(a) ==
  LET len == Len(contextStr(a.task.context, a.unreadable))
      headroom == MAX_PROMPT_LENGTH - Len(a.task.prompt) - 100
  IN  len > headroom /\ headroom > 500

\* C34 as stated: a context file that is missing or unreadable never aborts
\* the task; the prompt that buildEnrichedPrompt returns holds the
\* '[error: ...]' placeholder of that entry, every other entry and the
\* original prompt, and the child process is still spawned.
C34_FailedReadKeepsAllEntries ==
  \A k \in DOMAIN attempts :
    ReadFailed(attempts[k]) =>
      /\ attempts[k].outcome # "rejected"
      /\ HasSuffix(attempts[k].prompt, T_TaskHeader \o attempts[k].task.prompt)
      /\ \A i \in DOMAIN attempts[k].task.context :
           includes(attempts[k].prompt,
                    StatedEntry(attempts[k].task.context[i], attempts[k].unreadable))

\* C34, amended: a context file that is missing or unreadable never aborts
\* the task; the prompt ends with the original prompt, and it holds the
\* '[error: ...]' placeholder of that entry and every other entry unless the
\* context block was cut to the headroom; the attempt goes on to spawn the
\* child.
C34_FailedReadDoesNotAbort ==
  \A k \in DOMAIN attempts :
    ReadFailed(attempts[k]) =>
      /\ attempts[k].outcome # "rejected"
      /\ HasSuffix(attempts[k].prompt, T_TaskHeader \o attempts[k].task.prompt)
      /\ ~ContextIsCut(attempts[k]) =>
           \A i \in DOMAIN attempts[k].task.context :
             includes(attempts[k].prompt,
                      StatedEntry(attempts[k].task.context[i], attempts[k].unreadable))

\* C34 witness: the child of a task with two file references is running, the
\* read of one of them failed and the other was read.
C34_Witness ==
  \E k \in DOMAIN attempts :
    /\ ReadFailed(attempts[k])
    /\ attempts[k].pc = "running"
    /\ ~ContextIsCut(attempts[k])
    /\ \E i \in DOMAIN attempts[k].task.context :
         attempts[k].task.context[i].path \notin attempts[k].unreadable

\* C35: whenever the assembled context is longer than the headroom
\* 6000 - len(original prompt) - 100, it is cut to that headroom and the
\* truncation marker is appended, so that for every length of the original
\* prompt the enriched prompt stays within 6000 characters.
C35_EnrichedPromptWithinLimit ==
  \A k \in DOMAIN attempts :
    LET a == attempts[k]
        str == contextStr(a.task.context, a.unreadable)
        headroom == MAX_PROMPT_LENGTH - Len(a.task.prompt) - 100
    IN  a.pc \in {"config", "running"} /\ a.task.context # <<>> =>
          /\ Len(str) > headroom =>
               a.prompt = T_ContextHeader \o slice0(str, headroom) \o T_ContextTruncated
                            \o T_TaskHeader \o a.task.prompt
          /\ Len(a.prompt) <= MAX_PROMPT_LENGTH

\* C36: within one batch at most one child process of a task is alive at any
\* time: the child of the second attempt is spawned only when the child of the
\* first attempt has closed, or failed to start, and the retry delay has passed
\* since, also when the first attempt ended by its timeout.
C36_OneChildPerTask ==
  /\ [](\A i \in Slots : run[i].alive <= 1)
  /\ [][\A i \in Slots :
          (i \in DOMAIN run' /\ run[i].attempt = 2 /\ run'[i].spawnCalls > run[i].spawnCalls)
            => /\ run[i].alive = 0
               /\ run[i].closedAt # NoTimer
               /\ now >= run[i].closedAt + RetryDelayMs]_vars

\* C36 witness: the child of the second attempt is alive, alone, after the
\* first attempt ended by its timeout.
C36_Witness ==
  \E i \in Slots :
    /\ run[i].attempt = 2
    /\ run[i].pc = "alive"
    /\ run[i].alive = 1
    /\ run[i].lastResult.kind = "timeout"

\* C37: when two batches run concurrently, activeTasks holds the id of every
\* task that has a running child process, also when both batches use the same
\* task id; so activeTasks is empty only when no child is running.
C37_ActiveTasksCoversRunningChildren ==
  \A k \in DOMAIN attempts :
    attempts[k].pc = "running" => attempts[k].task.id \in activeTasks

\* C39: a second shutdown signal received while a drain is in progress has no
\* effect: it neither restarts nor extends the drain deadline of 30 s, and it
\* does not make the server exit earlier.
C39_SecondSignalIgnored ==
  [][(isShuttingDown /\ ignoredSignals' # ignoredSignals) =>
       /\ deadline' = deadline
       /\ pollTimer' = pollTimer
       /\ exitedAt' = exitedAt
       /\ isShuttingDown'
       /\ UNCHANGED <<phase, tasks, defaultTimeout, cliConfig, activeTasks, now, run, output>>
    ]_vars

\* C39 witness: a signal was received during the drain, some time after the
\* first one, and the server has exited at the deadline of the first.
C39_Witness ==
  /\ ignoredSignals > 0
  /\ exitedAt = deadline
  /\ activeTasks # {}

\* C38: once shutdown has begun no new task is dispatched: a spawn_subagents
\* call that arrives during the drain spawns no child and adds no id to
\* activeTasks.
C38_NoDispatchDuringDrain ==
  /\ [](\A k \in DOMAIN attempts :
          attempts[k].afterSignal =>
            attempts[k].pc # "running" /\ attempts[k].outcome # "result")
  /\ [][\A k \in DOMAIN attempts :
          (attempts'[k].afterSignal /\ ~attempts[k].afterSignal)
            => activeTasks' \subseteq activeTasks]_vars

====
